---- MODULE Spec2Model ----
(***************************************************************************)
(* Model of image_metadata_analyzer.utils.aggregate_focal_lengths.         *)
(*                                                                         *)
(* Focal lengths are Python floats.  They are modelled as fixed-point      *)
(* integers in hundredths of a millimetre (1004 is 10.04 mm), thresholds   *)
(* as integers in units of 2^-19 (the bisection of [0.0, 2.0] in 20 steps  *)
(* only ever probes multiples of 2^-19, which floats represent exactly).   *)
(* The comparison (fl - start) / start <= threshold is evaluated exactly.  *)
(***************************************************************************)
EXTENDS Integers, Sequences, FiniteSets, TLC

(* ------------------------------ bounds -------------------------------- *)

\* number of directory entries under the scanned root
MaxFiles == 3
\* number of image files in the folder of the duplicate finder
MaxCopies == 3
\* number of image files that the review of the sharpness tool shows
MaxPaths == 31
\* the previews in image_cache when the model starts
Warm == 28
\* number of load_images_background threads alive at a time
MaxBackground == 1
\* number of image files in the folder of the sharpness tool
MaxScanFiles == 2
\* number of scans the user starts
MaxScans == 2
\* longest list of distinct values handed to get_groups alone
MaxSweepLen == 4
\* move_to_trash is called at most MaxTrashCalls times
MaxTrashCalls == 3
\* sharpness scores and thresholds range over 0..MaxScore
MaxScore == 6
\* longest observation list drawn from Values
MaxLen == 3
\* max_buckets ranges over -MaxInvalid..MaxBuckets and the default
MaxInvalid == 1
MaxBuckets == 3

(* ----------------------- constants of the code ------------------------ *)

\* max_buckets: int = 25
DefaultMaxBuckets == 25
\* for _ in range(20)
Iterations == 20
\* hundredths per millimetre: the fixed-point scale of the float values
ValueScale == 100
\* threshold units per 1.0: every mid of the bisection is a multiple of 2^-19
ThresholdScale == 2 ^ (Iterations - 1)
\* high = 2.0
HighInit == 2 * ThresholdScale

(* ------------------------------ inputs -------------------------------- *)

\* observed values (hundredths of a mm); none has a hundredths digit of 5,
\* so the rounding of f"{v:.1f}" never meets a tie
Values == {-2000, -1000, 0, 1000, 1004, 1100, 2000, 10000}

RECURSIVE SeqsUpTo(_)
SeqsUpTo(n) ==
  IF n = 0 THEN {<<>>}
  ELSE LET shorter == SeqsUpTo(n - 1)
       IN shorter \cup {Append(s, v) : s \in {t \in shorter : Len(t) = n - 1}, v \in Values}

\* the literal observation lists of tests/test_aggregation.py and of the
\* documented scenarios
Scenarios ==
  { <<5000>>, <<5000, 5000>>, <<2400, 3500, 5000>>,
    <<1000, 1100, 2000, 2100, 3000, 3100>>,
    <<1600, 2000, 30000, 30400>>,
    <<1050, 1050, 1120>>,
    <<5000, 5004>> }

Inputs == SeqsUpTo(MaxLen) \cup Scenarios

BucketArgs == ((-MaxInvalid) .. MaxBuckets) \cup {DefaultMaxBuckets}

(* --------------------------- pure helpers ----------------------------- *)

Range(s) == {s[i] : i \in 1 .. Len(s)}

\* the length of the first run of each value, as itertools.groupby counts
\* an unsorted list
CounterFirstRun(fls) ==
  [v \in Range(fls) |->
     LET first == CHOOSE i \in 1 .. Len(fls) :
                    fls[i] = v /\ \A j \in 1 .. i - 1 : fls[j] # v
         last  == CHOOSE i \in first .. Len(fls) :
                    /\ \A j \in first .. i : fls[j] = v
                    /\ (i = Len(fls) \/ fls[i + 1] # v)
     IN last - first + 1]

\* Counter(focal_lengths): value -> multiplicity
Counter(fls) ==
  [v \in Range(fls) |-> Cardinality({i \in 1 .. Len(fls) : fls[i] = v})]

SetMin(S) == CHOOSE m \in S : \A x \in S : m <= x

SetMax(S) == CHOOSE m \in S : \A x \in S : x <= m

\* sorted(counts.keys(), reverse=True)
RECURSIVE SortedDescending(_)
SortedDescending(S) ==
  IF S = {} THEN <<>>
  ELSE LET m == SetMax(S) IN <<m>> \o SortedDescending(S \ {m})

\* sorted(counts.keys())
RECURSIVE Sorted(_)
Sorted(S) ==
  IF S = {} THEN <<>>
  ELSE LET m == SetMin(S) IN <<m>> \o Sorted(S \ {m})

RECURSIVE SumSeq(_)
SumSeq(s) == IF s = <<>> THEN 0 ELSE Head(s) + SumSeq(Tail(s))

(* ---------------------------- formatting ------------------------------ *)

\* fl.is_integer()
is_integer(v) == v % ValueScale = 0

Abs(v) == IF v < 0 THEN -v ELSE v

\* f"{int(v)}" for an integral v
IntStr(v) == ToString(v \div ValueScale)

\* f"{v:.1f}": sign, then the magnitude rounded to one decimal
Fixed1(v) ==
  LET a      == Abs(v)
      q      == a \div 10
      r      == a % 10
      tenths == IF r > 5 \/ (r = 5 /\ q % 2 = 1) THEN q + 1 ELSE q
      tpu    == ValueScale \div 10
  IN (IF v < 0 THEN "-" ELSE "")
       \o ToString(tenths \div tpu) \o "." \o ToString(tenths % tpu)

\* str.rstrip(c) for a one-character c
RECURSIVE rstrip(_, _)
rstrip(s, c) ==
  IF Len(s) > 0 /\ SubSeq(s, Len(s), Len(s)) = c
  THEN rstrip(SubSeq(s, 1, Len(s) - 1), c)
  ELSE s

\* the label of the no-merge path (line 143)
NoMergeLabel(fl) ==
  (IF is_integer(fl) THEN IntStr(fl) ELSE Fixed1(fl)) \o " mm"

\* def fmt(v) (lines 189-190)
fmt(v) ==
  IF is_integer(v) THEN IntStr(v) ELSE rstrip(rstrip(Fixed1(v), "0"), ".")

(* ----------------------------- grouping ------------------------------- *)

\* the comparison without the division by start: fl - start <= threshold
WithinAbsolute(fl, start, threshold) ==
  LET d == fl - start
  IN IF d > 2 * ValueScale THEN FALSE
     ELSE d * ThresholdScale <= threshold * ValueScale

\* (fl - start) / start <= threshold for start > 0, fl > start, evaluated
\* exactly; threshold in units of 1/ThresholdScale, at most HighInit
WithinPositive(fl, start, threshold) ==
  LET d    == fl - start
      half == 2 ^ 9
      rest == ThresholdScale \div half
      a    == d * half
      q1   == a \div start
      r1   == a % start
      b    == r1 * rest
      q    == q1 * rest + (b \div start)
      r    == b % start
      \* ceil(d * ThresholdScale / start)
      need == IF r = 0 THEN q ELSE q + 1
  IN IF d > 2 * start THEN FALSE ELSE need <= threshold

\* the test of line 157 with the distance taken relative to fl:
\* (fl - start) / fl <= threshold
WithinOfCandidate(fl, start, threshold) ==
  IF start < 0 THEN TRUE ELSE WithinPositive(2 * fl - start, fl, threshold)

\* the test of line 157 with the comparison turned round
WithinFlipped(fl, start, threshold) ==
  IF start < 0 THEN FALSE ELSE ~WithinPositive(fl, start, threshold)

\* the test of line 157 for a non-zero start; fl > start, threshold >= 0.
\* A negative start makes the quotient negative, hence <= threshold.
Within(fl, start, threshold) ==
  IF start < 0 THEN TRUE ELSE WithinPositive(fl, start, threshold)

\* the loop of get_groups from position i on; a zero group start makes the
\* division of line 157 raise ZeroDivisionError
RECURSIVE Sweep(_, _, _, _, _)
Sweep(unique, i, current_group, groups, threshold) ==
  IF i > Len(unique)
  THEN [raised |-> FALSE, groups |-> Append(groups, current_group)]
  ELSE IF current_group[1] = 0
  THEN [raised |-> TRUE, groups |-> <<>>]
  ELSE IF Within(unique[i], current_group[1], threshold)
  THEN Sweep(unique, i + 1, Append(current_group, unique[i]), groups, threshold)
  ELSE Sweep(unique, i + 1, <<unique[i]>>, Append(groups, current_group), threshold)

\* get_groups without the append of the last group after the loop
get_groups_unclosed(unique, threshold) ==
  IF unique = <<>> THEN [raised |-> FALSE, groups |-> <<>>]
  ELSE LET g == Sweep(unique, 2, <<unique[1]>>, <<>>, threshold)
       IN [raised |-> g.raised,
           groups |-> IF g.groups = <<>> THEN <<>>
                      ELSE SubSeq(g.groups, 1, Len(g.groups) - 1)]

\* def get_groups(threshold)
get_groups(unique, threshold) ==
  IF unique = <<>> THEN [raised |-> FALSE, groups |-> <<>>]
  ELSE Sweep(unique, 2, <<unique[1]>>, <<>>, threshold)

(* ------------------------------ results ------------------------------- *)

\* the no-merge buckets with every count 1 instead of counts[fl]
NoMergeResultUncounted(unique, cnt) ==
  [i \in 1 .. Len(unique) |-> <<NoMergeLabel(unique[i]), 1, unique[i]>>]

\* lines 141-145
NoMergeResult(unique, cnt) ==
  [i \in 1 .. Len(unique) |-> <<NoMergeLabel(unique[i]), cnt[unique[i]], unique[i]>>]

\* len(group) instead of the sum of the members' counts
GroupCountDistinct(group, cnt) == Len(group)

\* sum(counts[fl] for fl in group)
GroupCount(group, cnt) == SumSeq([i \in 1 .. Len(group) |-> cnt[group[i]]])

\* the label without the range form: always the formatted minimum
GroupLabelMinOnly(group) == fmt(SetMin(Range(group))) \o " mm"

\* the label without the test fmt(min_fl) == fmt(max_fl)
GroupLabelAlwaysRange(group) ==
  LET min_fl == SetMin(Range(group))
      max_fl == SetMax(Range(group))
  IN IF Len(group) = 1 THEN fmt(min_fl) \o " mm"
     ELSE fmt(min_fl) \o "-" \o fmt(max_fl) \o " mm"

\* lines 192-199
GroupLabel(group) ==
  LET min_fl == SetMin(Range(group))
      max_fl == SetMax(Range(group))
  IN IF Len(group) = 1 THEN fmt(min_fl) \o " mm"
     ELSE IF fmt(min_fl) = fmt(max_fl) THEN fmt(min_fl) \o " mm"
     ELSE fmt(min_fl) \o "-" \o fmt(max_fl) \o " mm"

\* the merged buckets keyed by max(group) instead of min(group)
MergeResultMaxKey(groups, cnt) ==
  [i \in 1 .. Len(groups) |->
     <<GroupLabel(groups[i]), GroupCount(groups[i], cnt), SetMax(Range(groups[i]))>>]

\* lines 183-203
MergeResult(groups, cnt) ==
  [i \in 1 .. Len(groups) |->
     <<GroupLabel(groups[i]), GroupCount(groups[i], cnt), SetMin(Range(groups[i]))>>]

(* ------------------------------- state -------------------------------- *)

VARIABLES
  pc,              \* "call", "bisect", "final", "done" (returned), "raised";
                   \* "idle" while another function is looked at
  focal_lengths,   \* argument
  max_buckets,     \* argument
  counts,          \* Counter(focal_lengths)
  unique_fls,      \* sorted(counts.keys())
  low, high,       \* bisection bounds, in threshold units
  best_threshold,
  iter,            \* iterations of the for loop completed
  final_groups,    \* get_groups(best_threshold); <<>> on the no-merge path
  merged,          \* TRUE once the merge path was taken
  result,          \* the returned list of (label, count, sort_key)
  earlier          \* outcome of the caller's previous call, if any

aggVars == <<pc, focal_lengths, max_buckets, counts, unique_fls, low, high,
             best_threshold, iter, final_groups, merged, result>>

\* sharpness.categorize_sharpness
VARIABLES
  score, threshold_blur, threshold_sharp,   \* arguments
  category                                  \* returned category, 0 before the return

sharpVars == <<score, threshold_blur, threshold_sharp, category>>

SharpIdle ==
  /\ score = 0
  /\ threshold_blur = 0
  /\ threshold_sharp = 0
  /\ category = 0

\* duplicates.move_to_trash and the send2trash it calls
VARIABLES
  trash_fs,     \* the paths that exist
  s2t_calls,    \* the calls of send2trash so far: [arg, raised]
  mt_calls      \* the calls of move_to_trash so far: [path, outcome]

trashVars == <<trash_fs, s2t_calls, mt_calls>>

TrashIdle ==
  /\ trash_fs = {}
  /\ s2t_calls = <<>>
  /\ mt_calls = <<>>

\* sharpness.find_related_files
VARIABLES
  rel_dir,        \* the directory of filepath: name -> "absent", "file", "dir"
  rel_listable,   \* whether parent.iterdir() succeeds
  filepath,       \* argument: the name of the entry asked about
  related,        \* the returned list of names
  rel_pc          \* "idle", "call", "done"

relVars == <<rel_dir, rel_listable, filepath, related, rel_pc>>

RelIdle ==
  /\ rel_dir = <<>>
  /\ rel_listable = FALSE
  /\ filepath = ""
  /\ related = <<>>
  /\ rel_pc = "idle"

\* duplicates.find_duplicates
VARIABLES
  fd_pc,            \* "idle", "call", "hash", "close", "done"
  fd_root_exists,   \* root_path.exists()
  fd_files,         \* the entries os.walk yields, in its order: [ext, content, state]
  fd_has_callback,  \* whether a callback was passed
  fd_potential,     \* potential_groups, as lists of positions in fd_files
  fd_total,         \* total_files_to_hash
  fd_processed,     \* processed_count
  fd_gi, fd_fi,     \* position of the two nested loops of lines 74-85
  fd_hash_groups,   \* hash_groups of the current group, in insertion order
  fd_hashed,        \* the files passed to get_file_hash so far
  fd_callbacks,     \* the calls of callback so far: <<processed, total>>
  fd_duplicates     \* duplicates: [hash, size, files]

dupVars == <<fd_pc, fd_root_exists, fd_files, fd_has_callback, fd_potential,
             fd_total, fd_processed, fd_gi, fd_fi, fd_hash_groups, fd_hashed,
             fd_callbacks, fd_duplicates>>

DupIdle ==
  /\ fd_pc = "idle"
  /\ fd_root_exists = FALSE
  /\ fd_files = <<>>
  /\ fd_has_callback = FALSE
  /\ fd_potential = <<>>
  /\ fd_total = 0
  /\ fd_processed = 0
  /\ fd_gi = 0
  /\ fd_fi = 0
  /\ fd_hash_groups = <<>>
  /\ fd_hashed = <<>>
  /\ fd_callbacks = <<>>
  /\ fd_duplicates = <<>>

\* the state of the other functions of the package, untouched by
\* aggregate_focal_lengths
restVars == <<sharpVars, trashVars, relVars, dupVars>>

\* reader.get_exif_data
VARIABLES
  ge_pc,          \* "call", "exiftool", "exifread", "pillow", "done", "raised"
  ge_suffix,      \* image_path.suffix
  ge_exiftool,    \* what the exiftool block meets for this file
  ge_exifread,    \* what the exifread block meets
  ge_pillow,      \* what the Pillow block meets
  ge_tried,       \* the sources tried so far, in order
  ge_result       \* the returned value

exifVars == <<ge_pc, ge_suffix, ge_exiftool, ge_exifread, ge_pillow, ge_tried,
              ge_result>>

\* Python's None as a returned value
None == [kind |-> "None"]

ExifIdle ==
  /\ ge_pc = "idle"
  /\ ge_suffix = ""
  /\ ge_exiftool = None
  /\ ge_exifread = None
  /\ ge_pillow = None
  /\ ge_tried = <<>>
  /\ ge_result = None

\* utils.aggregate_focal_lengths.get_groups, one call of it
VARIABLES
  gg_pc,          \* "call", "loop", "done", "raised"
  gg_unique,      \* unique_fls
  gg_threshold,   \* argument
  gg_i,           \* position in unique_fls of the next fl of the for loop
  gg_current,     \* current_group
  gg_groups       \* groups

sweepVars == <<gg_pc, gg_unique, gg_threshold, gg_i, gg_current, gg_groups>>

SweepIdle ==
  /\ gg_pc = "idle"
  /\ gg_unique = <<>>
  /\ gg_threshold = 0
  /\ gg_i = 0
  /\ gg_current = <<>>
  /\ gg_groups = <<>>

\* gui.DuplicateFinder
VARIABLES
  df_content,       \* the content of each file of the folder
  df_trashed,       \* the files moved to trash so far
  df_folder,        \* root_folder_var
  df_is_scanning,   \* is_scanning
  df_found,         \* found_duplicates: the displayed groups' files
  df_check_vars,    \* check_vars: path -> whether its box is ticked
  df_messages,      \* the message boxes shown by the handler that ran last
  df_run            \* what the last run of delete_selected did

finderVars == <<df_content, df_trashed, df_folder, df_is_scanning, df_found,
                df_check_vars, df_messages, df_run>>

\* no run of delete_selected yet
NoRun == [ran |-> FALSE, full_group |-> FALSE, selected |-> 0, moved |-> 0,
          raised |-> FALSE, shown |-> <<>>]

FinderIdle ==
  /\ df_content = <<>>
  /\ df_trashed = {}
  /\ df_folder = ""
  /\ df_is_scanning = FALSE
  /\ df_found = <<>>
  /\ df_check_vars = <<>>
  /\ df_messages = <<>>
  /\ df_run = NoRun

\* sharpness_gui.SharpnessTool: scanning and deleting
VARIABLES
  st_disk,          \* the image files that exist in the folder
  st_sorted_files,  \* sorted_files; the scan thread's "files" is this list
  st_candidates,    \* candidates, one listbox row each
  st_files_map,     \* files_map: path -> score
  st_selection,     \* candidate_listbox.curselection(): a row, 0 for none
  st_is_scanning,   \* is_scanning
  st_stop_event,    \* stop_event.is_set()
  st_has_switched,  \* has_switched_to_review
  st_thread,        \* where run_scan_thread is, with its i, f and total
  st_after,         \* the callbacks posted with parent.after(0, ...)
  st_dialog,        \* the open "Confirm Delete" dialog with its idx and path
  st_log            \* what happened: scans started and finished, the files
                    \* analysed by the running scan, deletions during it,
                    \* results dropped and exceptions of process_scan_result

scanVars == <<st_disk, st_sorted_files, st_candidates, st_files_map,
              st_selection, st_is_scanning, st_stop_event, st_has_switched,
              st_thread, st_after, st_dialog, st_log>>

\* no scan thread
NoThread == [pc |-> "none", i |-> 0, f |-> 0, total |-> 0]

\* no dialog
NoDialog == [open |-> FALSE, idx |-> 0, path |-> 0]

NoLog == [started |-> 0, finished |-> 0, analysed |-> <<>>, deleted |-> {},
          ended |-> "", dropped |-> 0, raised |-> FALSE, readded |-> FALSE]

ScanIdle ==
  /\ st_disk = {}
  /\ st_sorted_files = <<>>
  /\ st_candidates = <<>>
  /\ st_files_map = <<>>
  /\ st_selection = 0
  /\ st_is_scanning = FALSE
  /\ st_stop_event = FALSE
  /\ st_has_switched = FALSE
  /\ st_thread = NoThread
  /\ st_after = <<>>
  /\ st_dialog = NoDialog
  /\ st_log = NoLog

\* sharpness_gui.SharpnessTool: the caches and the threads that fill them
VARIABLES
  ca_image_cache,     \* image_cache: its keys in insertion order
  ca_full_res_cache,  \* full_res_cache: its keys in insertion order
  ca_lock,            \* cache_lock and full_res_lock: the holder, "" if free
  ca_queue,           \* preloader_queue and full_res_queue
  ca_threads          \* each thread: where it is, its path, the paths it
                      \* still has to get, the key it is about to delete

cacheVars == <<ca_image_cache, ca_full_res_cache, ca_lock, ca_queue, ca_threads>>

CacheIdle ==
  /\ ca_image_cache = <<>>
  /\ ca_full_res_cache = <<>>
  /\ ca_lock = <<>>
  /\ ca_queue = <<>>
  /\ ca_threads = <<>>

laterVars == <<exifVars, sweepVars, finderVars, scanVars, cacheVars>>

LaterIdle == ExifIdle /\ SweepIdle /\ FinderIdle /\ ScanIdle /\ CacheIdle

vars == <<aggVars, earlier, restVars, laterVars>>

\* no call of the other functions is in progress
RestIdle == SharpIdle /\ TrashIdle /\ RelIdle /\ DupIdle

\* no call of aggregate_focal_lengths is in progress
AggIdle ==
  /\ pc = "idle"
  /\ focal_lengths = <<>>
  /\ max_buckets = 0
  /\ counts = <<>>
  /\ unique_fls = <<>>
  /\ low = 0
  /\ high = 0
  /\ best_threshold = 0
  /\ iter = 0
  /\ final_groups = <<>>
  /\ merged = FALSE
  /\ result = <<>>
  /\ earlier = [called |-> FALSE, raised |-> FALSE, result |-> <<>>]

\* no earlier call
NoEarlier == [called |-> FALSE, raised |-> FALSE, result |-> <<>>]

Init ==
  /\ pc = "call"
  /\ focal_lengths \in Inputs
  /\ max_buckets \in BucketArgs
  /\ counts = <<>>
  /\ unique_fls = <<>>
  /\ low = 0
  /\ high = 0
  /\ best_threshold = 0
  /\ iter = 0
  /\ final_groups = <<>>
  /\ merged = FALSE
  /\ result = <<>>
  /\ earlier = NoEarlier
  /\ RestIdle
  /\ LaterIdle

\* Enter with a ValueError raised for an empty observation list instead of
\* the return of []
EnterRaisesOnEmpty ==
  /\ pc = "call"
  /\ IF focal_lengths = <<>>
     THEN /\ pc' = "raised"
          /\ UNCHANGED <<counts, unique_fls, low, high, best_threshold, merged,
                         result>>
     ELSE LET cnt    == Counter(focal_lengths)
              unique == Sorted(DOMAIN cnt)
          IN /\ counts' = cnt
             /\ unique_fls' = unique
             /\ IF Len(unique) <= max_buckets
                THEN /\ pc' = "done"
                     /\ result' = NoMergeResult(unique, cnt)
                     /\ UNCHANGED <<low, high, best_threshold, merged>>
                ELSE /\ pc' = "bisect"
                     /\ low' = 0
                     /\ high' = HighInit
                     /\ best_threshold' = HighInit
                     /\ merged' = TRUE
                     /\ UNCHANGED result
  /\ UNCHANGED <<focal_lengths, max_buckets, iter, final_groups>>
  /\ UNCHANGED <<earlier, restVars, laterVars>>

\* lines 130-168: empty input, counting, the no-merge return, or the start
\* of the threshold search
Enter ==
  /\ pc = "call"
  /\ IF focal_lengths = <<>>
     THEN /\ pc' = "done"
          /\ result' = <<>>
          /\ UNCHANGED <<counts, unique_fls, low, high, best_threshold, merged>>
     ELSE LET cnt    == Counter(focal_lengths)
              unique == Sorted(DOMAIN cnt)
          IN /\ counts' = cnt
             /\ unique_fls' = unique
             /\ IF Len(unique) <= max_buckets
                THEN /\ pc' = "done"
                     /\ result' = NoMergeResult(unique, cnt)
                     /\ UNCHANGED <<low, high, best_threshold, merged>>
                ELSE /\ pc' = "bisect"
                     /\ low' = 0
                     /\ high' = HighInit
                     /\ best_threshold' = HighInit
                     /\ merged' = TRUE
                     /\ UNCHANGED result
  /\ UNCHANGED <<focal_lengths, max_buckets, iter, final_groups>>
  /\ UNCHANGED <<earlier, restVars, laterVars>>

\* BisectStep with the cap tested as len(groups) < max_buckets
BisectStepStrict ==
  /\ pc = "bisect"
  /\ iter < Iterations
  /\ LET mid == (low + high) \div 2
         g   == get_groups(unique_fls, mid)
     IN IF g.raised
        THEN /\ pc' = "raised"
             /\ UNCHANGED <<low, high, best_threshold, iter>>
        ELSE /\ iter' = iter + 1
             /\ pc' = IF iter + 1 = Iterations THEN "final" ELSE "bisect"
             /\ IF Len(g.groups) < max_buckets
                THEN /\ best_threshold' = mid
                     /\ high' = mid
                     /\ UNCHANGED low
                ELSE /\ low' = mid
                     /\ UNCHANGED <<high, best_threshold>>
  /\ UNCHANGED <<focal_lengths, max_buckets, counts, unique_fls, final_groups,
                 merged, result>>
  /\ UNCHANGED <<earlier, restVars, laterVars>>

\* lines 171-178: one iteration of the bisection
BisectStep ==
  /\ pc = "bisect"
  /\ iter < Iterations
  /\ LET mid == (low + high) \div 2
         g   == get_groups(unique_fls, mid)
     IN IF g.raised
        THEN /\ pc' = "raised"
             /\ UNCHANGED <<low, high, best_threshold, iter>>
        ELSE /\ iter' = iter + 1
             /\ pc' = IF iter + 1 = Iterations THEN "final" ELSE "bisect"
             /\ IF Len(g.groups) <= max_buckets
                THEN /\ best_threshold' = mid
                     /\ high' = mid
                     /\ UNCHANGED low
                ELSE /\ low' = mid
                     /\ UNCHANGED <<high, best_threshold>>
  /\ UNCHANGED <<focal_lengths, max_buckets, counts, unique_fls, final_groups,
                 merged, result>>
  /\ UNCHANGED <<earlier, restVars, laterVars>>

\* lines 181-203: the final grouping and the labelled buckets
Finalize ==
  /\ pc = "final"
  /\ LET g == get_groups(unique_fls, best_threshold)
     IN IF g.raised
        THEN /\ pc' = "raised"
             /\ UNCHANGED <<final_groups, result>>
        ELSE /\ pc' = "done"
             /\ final_groups' = g.groups
             /\ result' = MergeResult(g.groups, counts)
  /\ UNCHANGED <<focal_lengths, max_buckets, counts, unique_fls, low, high,
                 best_threshold, iter, merged>>
  /\ UNCHANGED <<earlier, restVars, laterVars>>

Next == Enter \/ BisectStep \/ Finalize

Spec == Init /\ [][Next]_vars

\* s with the observations at positions i and j exchanged
Swap(s, i, j) ==
  [k \in 1 .. Len(s) |-> IF k = i THEN s[j] ELSE IF k = j THEN s[i] ELSE s[k]]

\* the caller calls again (lines 114-116) with two observations exchanged
\* and the same max_buckets; the locals of the new call are fresh
CallAgain ==
  /\ pc \in {"done", "raised"}
  /\ \E i, j \in 1 .. Len(focal_lengths) :
       /\ i < j
       /\ focal_lengths' = Swap(focal_lengths, i, j)
  /\ earlier' = [called |-> TRUE, raised |-> pc = "raised", result |-> result]
  /\ pc' = "call"
  /\ counts' = <<>>
  /\ unique_fls' = <<>>
  /\ low' = 0
  /\ high' = 0
  /\ best_threshold' = 0
  /\ iter' = 0
  /\ final_groups' = <<>>
  /\ merged' = FALSE
  /\ result' = <<>>
  /\ UNCHANGED <<max_buckets, restVars, laterVars>>

NextRecall == Enter \/ BisectStep \/ Finalize \/ CallAgain

\* repeated calls on reordered observation lists
SpecRecall == Init /\ [][NextRecall]_vars

(* ------------------- the call as a single function -------------------- *)

\* the for loop of lines 171-178 from iteration n on; the threshold it
\* leaves in best_threshold, or raised
RECURSIVE Bisect(_, _, _, _, _, _)
Bisect(unique, mb, lo, hi, best, n) ==
  IF n = Iterations THEN [raised |-> FALSE, best |-> best]
  ELSE LET mid == (lo + hi) \div 2
           g   == get_groups(unique, mid)
       IN IF g.raised THEN [raised |-> TRUE, best |-> best]
          ELSE IF Len(g.groups) <= mb
          THEN Bisect(unique, mb, lo, mid, mid, n + 1)
          ELSE Bisect(unique, mb, mid, hi, best, n + 1)

\* aggregate_focal_lengths(fls, mb): what it returns, or raised
Aggregate(fls, mb) ==
  IF fls = <<>> THEN [raised |-> FALSE, result |-> <<>>]
  ELSE LET cnt    == Counter(fls)
           unique == Sorted(DOMAIN cnt)
       IN IF Len(unique) <= mb
          THEN [raised |-> FALSE, result |-> NoMergeResult(unique, cnt)]
          ELSE LET b == Bisect(unique, mb, 0, HighInit, HighInit, 0)
                   g == get_groups(unique, b.best)
               IN IF b.raised \/ g.raised
                  THEN [raised |-> TRUE, result |-> <<>>]
                  ELSE [raised |-> FALSE, result |-> MergeResult(g.groups, cnt)]

(* ------------------------------ claims -------------------------------- *)

\* the distinct values each returned bucket stands for: the final groups on
\* the merge path, the value itself on the no-merge path
Buckets ==
  IF merged THEN final_groups
  ELSE [i \in 1 .. Len(result) |-> <<result[i][3]>>]

\* C1: whenever the call returns, the counts of the returned buckets sum to
\* len(observations), with or without merging
C1_CountConservation ==
  pc = "done" =>
    SumSeq([i \in 1 .. Len(result) |-> result[i][2]]) = Len(focal_lengths)

\* C1 witness: a returned merge with a merged bucket and a repeated value
C1_Witness ==
  /\ pc = "done"
  /\ merged
  /\ Len(result) < Len(unique_fls)
  /\ Len(unique_fls) < Len(focal_lengths)

\* C3: the returned buckets partition the distinct observed values, none is
\* empty, and each covers a contiguous run of the sorted distinct values
C3_Partition ==
  (pc = "done" /\ focal_lengths # <<>>) =>
    LET distinct == Range(focal_lengths)
    IN /\ Len(Buckets) = Len(result)
       /\ \A v \in distinct :
            Cardinality({i \in 1 .. Len(Buckets) : v \in Range(Buckets[i])}) = 1
       /\ \A i \in 1 .. Len(Buckets) :
            /\ Buckets[i] # <<>>
            /\ Range(Buckets[i]) \subseteq distinct
            /\ Cardinality(Range(Buckets[i])) = Len(Buckets[i])
            /\ \A v \in distinct :
                 (SetMin(Range(Buckets[i])) <= v /\ v <= SetMax(Range(Buckets[i])))
                   => v \in Range(Buckets[i])

\* C3 witness: a returned merge with a bucket of several values and another
\* bucket after it
C3_Witness ==
  /\ pc = "done"
  /\ merged
  /\ Len(final_groups) >= 2
  /\ Len(final_groups[1]) >= 2

\* C4: with no more distinct values than max_buckets, one bucket per distinct
\* value, its count the value's multiplicity, its sort_key the value
C4_NoMerge ==
  (pc = "done" /\ focal_lengths # <<>>
     /\ Cardinality(Range(focal_lengths)) <= max_buckets) =>
    /\ Len(result) = Cardinality(Range(focal_lengths))
    /\ {result[i][3] : i \in 1 .. Len(result)} = Range(focal_lengths)
    /\ \A i \in 1 .. Len(result) :
         result[i][2] =
           Cardinality({j \in 1 .. Len(focal_lengths) : focal_lengths[j] = result[i][3]})
    /\ (focal_lengths = <<5000>> => result = << <<"50 mm", 1, 5000>> >>)
    /\ (focal_lengths = <<5000, 5000>> => result[1][1] = "50 mm")

\* C4 witness: a no-merge return with several distinct values, one repeated
C4_Witness ==
  /\ pc = "done"
  /\ ~merged
  /\ Len(result) >= 2
  /\ \E i \in 1 .. Len(result) : result[i][2] >= 2

\* C2: for a non-empty observation list the call returns at most
\* max(1, max_buckets) buckets, however widely the values are spread
C2_BucketCap ==
  (pc = "done" /\ focal_lengths # <<>>) =>
    Len(result) <= (IF max_buckets > 1 THEN max_buckets ELSE 1)

\* C5: for a non-empty observation list and max_buckets <= 0 the call does
\* not raise and returns exactly what it returns for max_buckets = 1
C5_InvalidMaxBucketsClamped ==
  (focal_lengths # <<>> /\ max_buckets <= 0) =>
    /\ pc # "raised"
    /\ pc = "done" =>
         Aggregate(focal_lengths, 1) = [raised |-> FALSE, result |-> result]

\* C6: with 0.0 among the observations and more distinct values than
\* max_buckets the call does not raise, and a group anchored at 0 holds
\* nothing but the zero
C6_ZeroAnchor ==
  /\ (0 \in Range(focal_lengths)
        /\ Cardinality(Range(focal_lengths)) > max_buckets) => pc # "raised"
  /\ (pc = "done" /\ merged) =>
       \A i \in 1 .. Len(final_groups) :
         final_groups[i][1] = 0 => Len(final_groups[i]) = 1

\* C7: with negative observations the call does not raise, and every member
\* of a group with a negative anchor lies within the final threshold of the
\* anchor, relative to the anchor's magnitude
C7_NegativeValues ==
  /\ (\E v \in Range(focal_lengths) : v < 0) => pc # "raised"
  /\ (pc = "done" /\ merged) =>
       \A i \in 1 .. Len(final_groups) :
         LET anchor == final_groups[i][1]
         IN anchor < 0 =>
              \A j \in 2 .. Len(final_groups[i]) :
                WithinPositive(Abs(anchor) + (final_groups[i][j] - anchor),
                               Abs(anchor), best_threshold)

\* C8: on the no-merge path as on the merge path a single-value label is
\* fmt(value) and a range label is made of fmt(min) and fmt(max): whole
\* numbers without decimals, one decimal otherwise, a trailing ".0" dropped
C8_UniformFormatting ==
  pc = "done" =>
    \A i \in 1 .. Len(result) :
      LET lo == SetMin(Range(Buckets[i]))
          hi == SetMax(Range(Buckets[i]))
      IN IF Len(Buckets[i]) = 1
         THEN result[i][1] = fmt(lo) \o " mm"
         ELSE result[i][1] \in {fmt(lo) \o " mm", fmt(lo) \o "-" \o fmt(hi) \o " mm"}

\* the relative gap after position k of the sorted distinct values u is below
\* 2.0 and smaller than every other gap by more than 1/ThresholdScale, the
\* resolution of the bisection
ClosestPair(u, k) ==
  /\ u[k + 1] - u[k] < 2 * u[k]
  /\ \A j \in (1 .. Len(u) - 1) \ {k} :
       (u[j + 1] - u[j]) * u[k] - (u[k + 1] - u[k]) * u[j]
         > (u[k] * u[j]) \div ThresholdScale

\* C9: with max_buckets + 1 distinct positive values and one adjacent pair
\* strictly closest (relative to the smaller value), exactly that pair is
\* merged and every other value keeps its own bucket
C9_ProximityPreference ==
  /\ (pc = "done" /\ max_buckets >= 1 /\ Len(unique_fls) = max_buckets + 1
        /\ unique_fls[1] > 0) =>
       \A k \in 1 .. Len(unique_fls) - 1 :
         ClosestPair(unique_fls, k) =>
           /\ final_groups =
                [i \in 1 .. max_buckets |->
                   IF i < k THEN <<unique_fls[i]>>
                   ELSE IF i = k THEN <<unique_fls[k], unique_fls[k + 1]>>
                   ELSE <<unique_fls[i + 1]>>]
           /\ Len(result) = max_buckets
           /\ \A i \in 1 .. max_buckets :
                /\ result[i][3] = final_groups[i][1]
                /\ result[i][2] =
                     Cardinality({j \in 1 .. Len(focal_lengths) :
                                    focal_lengths[j] \in Range(final_groups[i])})
  /\ (pc = "done" /\ focal_lengths = <<1600, 2000, 30000, 30400>>
        /\ max_buckets = 3) =>
       result = << <<"16 mm", 1, 1600>>, <<"20 mm", 1, 2000>>,
                   <<"300-304 mm", 2, 30000>> >>

\* C9 witness: a returned call with three or more distinct positive values,
\* one more than max_buckets, whose closest pair is not the first
C9_Witness ==
  /\ pc = "done"
  /\ Len(unique_fls) = max_buckets + 1
  /\ Len(unique_fls) >= 3
  /\ unique_fls[1] > 0
  /\ \E k \in 2 .. Len(unique_fls) - 1 : ClosestPair(unique_fls, k)

\* C10: [10, 11, 20, 21, 30, 31] with max_buckets = 3 returns the three
\* merged pairs in ascending order
C10_ForcedMerge ==
  (pc = "done" /\ focal_lengths = <<1000, 1100, 2000, 2100, 3000, 3100>>
     /\ max_buckets = 3) =>
    result = << <<"10-11 mm", 2, 1000>>, <<"20-21 mm", 2, 2000>>,
                <<"30-31 mm", 2, 3000>> >>

\* C10 witness: that call has returned
C10_Witness ==
  /\ pc = "done"
  /\ focal_lengths = <<1000, 1100, 2000, 2100, 3000, 3100>>
  /\ max_buckets = 3
  /\ Len(result) = 3

\* C11: a merged bucket of several values whose formatted min and max differ
\* is labelled "<fmt(min)>-<fmt(max)> mm" and counts every observation of its
\* members; [10.5, 10.5, 11.2] with max_buckets = 1 gives "10.5-11.2 mm", 3
C11_RangeLabel ==
  /\ (pc = "done" /\ merged) =>
       \A i \in 1 .. Len(final_groups) :
         LET lo == SetMin(Range(final_groups[i]))
             hi == SetMax(Range(final_groups[i]))
         IN (Len(final_groups[i]) > 1 /\ fmt(lo) # fmt(hi)) =>
              /\ result[i][1] = fmt(lo) \o "-" \o fmt(hi) \o " mm"
              /\ result[i][2] =
                   Cardinality({j \in 1 .. Len(focal_lengths) :
                                  focal_lengths[j] \in Range(final_groups[i])})
  /\ (pc = "done" /\ focal_lengths = <<1050, 1050, 1120>> /\ max_buckets = 1) =>
       result = << <<"10.5-11.2 mm", 3, 1050>> >>

\* C11 witness: a returned merge with a range bucket holding a repeated value
C11_Witness ==
  /\ pc = "done"
  /\ merged
  /\ \E i \in 1 .. Len(final_groups) :
       /\ Len(final_groups[i]) > 1
       /\ fmt(SetMin(Range(final_groups[i]))) # fmt(SetMax(Range(final_groups[i])))
       /\ result[i][2] > Len(final_groups[i])

\* C12: a merged bucket of several values whose min and max format to the
\* same string carries the single-value label, e.g. "50 mm" for 50.0, 50.04
C12_WholeNumberCollapse ==
  /\ (pc = "done" /\ merged) =>
       \A i \in 1 .. Len(final_groups) :
         LET lo == SetMin(Range(final_groups[i]))
             hi == SetMax(Range(final_groups[i]))
         IN (Len(final_groups[i]) > 1 /\ fmt(lo) = fmt(hi)) =>
              result[i][1] = fmt(lo) \o " mm"
  /\ (pc = "done" /\ focal_lengths = <<5000, 5004>> /\ max_buckets = 1) =>
       result = << <<"50 mm", 2, 5000>> >>

\* C12 witness: a returned merge with a bucket of two distinct values that
\* format alike
C12_Witness ==
  /\ pc = "done"
  /\ merged
  /\ \E i \in 1 .. Len(final_groups) :
       /\ Len(final_groups[i]) > 1
       /\ fmt(SetMin(Range(final_groups[i]))) = fmt(SetMax(Range(final_groups[i])))

\* C13: the buckets are returned in strictly ascending sort_key order and
\* each sort_key is the smallest distinct value of its bucket
C13_AscendingSortKeys ==
  pc = "done" =>
    /\ \A i \in 1 .. Len(result) - 1 : result[i][3] < result[i + 1][3]
    /\ \A i \in 1 .. Len(result) : result[i][3] = SetMin(Range(Buckets[i]))

\* C13 witness: returned buckets, several of them, from an observation list
\* that was not in ascending order, on the merge path
C13_Witness ==
  /\ pc = "done"
  /\ merged
  /\ Len(result) >= 2
  /\ \E i \in 1 .. Len(focal_lengths) - 1 : focal_lengths[i] > focal_lengths[i + 1]

\* C14: for an empty observation list the call returns an empty list, for
\* every max_buckets, without entering the merge path
C14_EmptyInput ==
  (focal_lengths = <<>> /\ pc # "call") =>
    (pc = "done" /\ result = <<>> /\ ~merged)

\* C14 witness: a call on the empty list with max_buckets <= 0 has returned
C14_Witness ==
  /\ focal_lengths = <<>>
  /\ max_buckets <= 0
  /\ pc = "done"

\* C15: a call on a reordering of the observations of an earlier call, with
\* the same max_buckets, ends as the earlier call did: the same buckets in
\* the same order, or the same failure
C15_OrderIrrelevant ==
  (earlier.called /\ pc \in {"done", "raised"}) =>
    /\ (pc = "raised") = earlier.raised
    /\ pc = "done" => result = earlier.result

\* C15 witness: a later call on a list that is not in ascending order and
\* repeats a value has returned merged buckets
C15_Witness ==
  /\ earlier.called
  /\ pc = "done"
  /\ merged
  /\ Len(unique_fls) < Len(focal_lengths)
  /\ \E i \in 1 .. Len(focal_lengths) - 1 : focal_lengths[i] > focal_lengths[i + 1]

\* the midpoints a bisection over [0.0, 2.0] probes in its first n
\* iterations, each with whether it met the cap, when the high bound is
\* lowered on a midpoint that meets the cap and the low bound raised otherwise
RECURSIVE Probes(_, _, _, _, _)
Probes(unique, mb, lo, hi, n) ==
  IF n = 0 THEN <<>>
  ELSE LET mid == (lo + hi) \div 2
           ok  == Len(get_groups(unique, mid).groups) <= mb
       IN <<[mid |-> mid, ok |-> ok]>>
          \o (IF ok THEN Probes(unique, mb, lo, mid, n - 1)
              ELSE Probes(unique, mb, mid, hi, n - 1))

\* the smallest probed midpoint that met the cap, 2.0 when none did
SmallestSatisfying(probes) ==
  LET met == {probes[i].mid : i \in {j \in 1 .. Len(probes) : probes[j].ok}}
  IN IF met = {} THEN HighInit ELSE SetMin(met)

\* C22: when merging is required the bisection over [0.0, 2.0] makes exactly
\* 20 probes before the final grouping; after every iteration best_threshold
\* equals the high bound and is the smallest midpoint probed so far that
\* yielded <= max_buckets groups, 2.0 when none did; the low bound is the
\* largest probed midpoint that did not; the final grouping uses that
\* threshold
C22_ThresholdSearch ==
  (merged /\ pc \in {"bisect", "final", "done"}) =>
    LET probes == Probes(unique_fls, max_buckets, 0, HighInit, iter)
        failed == {probes[i].mid : i \in {j \in 1 .. Len(probes) : ~probes[j].ok}}
    IN /\ iter <= Iterations
       /\ pc \in {"final", "done"} => iter = Iterations
       /\ best_threshold = high
       /\ best_threshold = SmallestSatisfying(probes)
       /\ low = IF failed = {} THEN 0 ELSE SetMax(failed)
       /\ low < high
       /\ pc = "done" => final_groups = get_groups(unique_fls, best_threshold).groups

\* a finished search in which some probed midpoints met the cap and others
\* did not
C22_Witness ==
  /\ merged
  /\ pc = "done"
  /\ iter = Iterations
  /\ 0 < low
  /\ best_threshold < HighInit
  /\ Len(final_groups) <= max_buckets

\* a finished search in which no probed midpoint met the cap
C22_NoneSatisfied ==
  /\ merged
  /\ pc = "done"
  /\ iter = Iterations
  /\ best_threshold = HighInit
  /\ Len(final_groups) > max_buckets

(* ------------------- sharpness.categorize_sharpness ------------------- *)

\* class SharpnessCategories
CRISP == 1
ACCEPTABLE == 2
BLURRY == 3

\* scores and thresholds are floats compared with <; the integers 0..MaxScore
\* stand for them in order
Scores == 0 .. MaxScore

\* the comparisons with <= in place of <
categorize_sharpness_inclusive(s, blur, sharp) ==
  IF s <= blur THEN BLURRY
  ELSE IF s <= sharp THEN ACCEPTABLE
  ELSE CRISP

\* def categorize_sharpness(score, threshold_blur, threshold_sharp)
categorize_sharpness(s, blur, sharp) ==
  IF s < blur THEN BLURRY
  ELSE IF s < sharp THEN ACCEPTABLE
  ELSE CRISP

SharpInit ==
  /\ AggIdle
  /\ LaterIdle
  /\ TrashIdle
  /\ RelIdle
  /\ DupIdle
  /\ score \in Scores
  /\ threshold_blur \in Scores
  /\ threshold_sharp \in Scores
  /\ category = 0

\* the call returns
Categorize ==
  /\ category = 0
  /\ category' = categorize_sharpness(score, threshold_blur, threshold_sharp)
  /\ UNCHANGED <<score, threshold_blur, threshold_sharp>>
  /\ UNCHANGED <<aggVars, earlier, trashVars, relVars, dupVars, laterVars>>

NextSharp == Categorize

SpecSharp == SharpInit /\ [][NextSharp]_vars

\* C19: with threshold_blur <= threshold_sharp the returned category is
\* BLURRY iff score < threshold_blur, ACCEPTABLE iff threshold_blur <= score
\* < threshold_sharp, CRISP iff score >= threshold_sharp
C19_Categories ==
  (category # 0 /\ threshold_blur <= threshold_sharp) =>
    /\ category \in {CRISP, ACCEPTABLE, BLURRY}
    /\ (category = BLURRY) = (score < threshold_blur)
    /\ (category = ACCEPTABLE) =
         (threshold_blur <= score /\ score < threshold_sharp)
    /\ (category = CRISP) = (score >= threshold_sharp)

\* C19 witness: a score equal to the blur threshold, below the sharp
\* threshold, was categorized
C19_Witness ==
  /\ category # 0
  /\ score = threshold_blur
  /\ threshold_blur < threshold_sharp

(* ---------------------- duplicates.move_to_trash ---------------------- *)

\* pathlib paths, as their parts below the root directory
TrashPaths ==
  { <<"tmp", "delete_me.txt">>, <<"tmp", "images", "img1.jpg">>,
    <<"tmp", "images", "img2.jpg">> }

\* str(filepath) of an absolute POSIX path
RECURSIVE PathStr(_)
PathStr(path) ==
  IF path = <<>> THEN "" ELSE "/" \o Head(path) \o PathStr(Tail(path))

TrashInit ==
  /\ AggIdle
  /\ LaterIdle
  /\ SharpIdle
  /\ RelIdle
  /\ DupIdle
  /\ trash_fs \in SUBSET TrashPaths
  /\ s2t_calls = <<>>
  /\ mt_calls = <<>>

\* move_to_trash with the failure of send2trash caught and reported as a
\* normal return
MoveToTrashSwallowing(path, fails) ==
  /\ Len(mt_calls) < MaxTrashCalls
  /\ (path \notin trash_fs) => fails
  /\ s2t_calls' = Append(s2t_calls, [arg |-> PathStr(path), raised |-> fails])
  /\ trash_fs' = IF fails THEN trash_fs ELSE trash_fs \ {path}
  /\ mt_calls' = Append(mt_calls, [path |-> path, outcome |-> "returned"])
  /\ UNCHANGED <<aggVars, earlier, sharpVars, relVars, dupVars, laterVars>>

\* move_to_trash(filepath): send2trash(str(filepath)) moves the file to the
\* trash or raises (always, for a path that does not exist); nothing catches
\* what it raises
MoveToTrash(path, fails) ==
  /\ Len(mt_calls) < MaxTrashCalls
  /\ (path \notin trash_fs) => fails
  /\ s2t_calls' = Append(s2t_calls, [arg |-> PathStr(path), raised |-> fails])
  /\ trash_fs' = IF fails THEN trash_fs ELSE trash_fs \ {path}
  /\ mt_calls' = Append(mt_calls,
                        [path |-> path,
                         outcome |-> IF fails THEN "raised" ELSE "returned"])
  /\ UNCHANGED <<aggVars, earlier, sharpVars, relVars, dupVars, laterVars>>

NextTrash == \E path \in TrashPaths, fails \in BOOLEAN : MoveToTrash(path, fails)

SpecTrash == TrashInit /\ [][NextTrash]_vars

\* C18: every call of move_to_trash makes exactly one call of send2trash,
\* with str(path), and raises exactly when that call raised
C18_TrashOnceAndPropagate ==
  /\ Len(s2t_calls) = Len(mt_calls)
  /\ \A i \in 1 .. Len(mt_calls) :
       /\ s2t_calls[i].arg = PathStr(mt_calls[i].path)
       /\ (mt_calls[i].outcome = "raised") = s2t_calls[i].raised
  /\ \A i \in 1 .. Len(mt_calls) :
       mt_calls[i].path = <<"tmp", "delete_me.txt">> =>
         s2t_calls[i].arg = "/tmp/delete_me.txt"

\* C18 witness: one call has returned after moving its file and a later one
\* has raised
C18_Witness ==
  \E i, j \in 1 .. Len(mt_calls) :
    /\ i < j
    /\ mt_calls[i].outcome = "returned"
    /\ mt_calls[i].path \notin trash_fs
    /\ mt_calls[j].outcome = "raised"

(* -------------------- sharpness.find_related_files -------------------- *)

\* the names a directory may hold
RelNames ==
  {"DSC001.ARW", "DSC001.JPG", "DSC001.xmp", "DSC002.ARW", "DSC001.tar.gz"}

\* s.rfind(c) among the first i characters, counted from 1; 0 if absent
RECURSIVE RFind(_, _, _)
RFind(s, c, i) ==
  IF i = 0 THEN 0
  ELSE IF SubSeq(s, i, i) = c THEN i
  ELSE RFind(s, c, i - 1)

\* PurePath.stem: the name without its last suffix
Stem(name) ==
  LET k == RFind(name, ".", Len(name))
  IN IF 1 < k /\ k < Len(name) THEN SubSeq(name, 1, k - 1) ELSE name

\* the entries with the stem of name, regular file or not
SameStemEntries(dir, name) ==
  {f \in DOMAIN dir : dir[f] # "absent" /\ Stem(f) = Stem(name)}

\* the entries kept by the test of line 171: f.stem == stem and f.is_file()
RelatedEntries(dir, name) ==
  {f \in DOMAIN dir : dir[f] = "file" /\ Stem(f) = Stem(name)}

\* the orders in which iterdir may yield the entries of S
Orders(S) == {q \in [1 .. Cardinality(S) -> S] : Range(q) = S}

RelInit ==
  /\ AggIdle
  /\ LaterIdle
  /\ SharpIdle
  /\ TrashIdle
  /\ DupIdle
  /\ rel_dir \in [RelNames -> {"absent", "file", "dir"}]
  /\ rel_listable \in BOOLEAN
  /\ filepath \in RelNames
  /\ related = <<>>
  /\ rel_pc = "call"

\* def find_related_files(filepath)
FindRelatedFiles ==
  /\ rel_pc = "call"
  /\ rel_pc' = "done"
  /\ IF rel_dir[filepath] = "absent"
     THEN related' = <<>>
     ELSE IF ~rel_listable
     THEN related' = <<filepath>>
     ELSE related' \in Orders(RelatedEntries(rel_dir, filepath))
  /\ UNCHANGED <<rel_dir, rel_listable, filepath>>
  /\ UNCHANGED <<aggVars, earlier, sharpVars, trashVars, dupVars, laterVars>>

NextRel == FindRelatedFiles

SpecRel == RelInit /\ [][NextRel]_vars

FORCE_EXIFTOOL_EXTENSIONS ==
  {".arw", ".nef", ".cr2", ".dng", ".raw", ".cr3", ".raf", ".orf", ".rw2",
   ".pef", ".srw", ".sr2", ".heic", ".heif", ".png", ".webp"}

\* reader.SUPPORTED_EXTENSIONS
SUPPORTED_EXTENSIONS ==
  FORCE_EXIFTOOL_EXTENSIONS \cup {".jpg", ".jpeg", ".tif", ".tiff"}

\* duplicates.IMAGE_EXTENSIONS
IMAGE_EXTENSIONS == SUPPORTED_EXTENSIONS \cup {".bmp", ".gif"}

UpperChars == "ABCDEFGHIJKLMNOPQRSTUVWXYZ"
LowerChars == "abcdefghijklmnopqrstuvwxyz"

\* the lower-case letter of each upper-case letter
LowerOf ==
  LET pairs == {<<SubSeq(UpperChars, i, i), SubSeq(LowerChars, i, i)>> :
                  i \in 1 .. Len(UpperChars)}
  IN [c \in {p[1] : p \in pairs} |-> (CHOOSE p \in pairs : p[1] = c)[2]]

\* str.lower()
RECURSIVE Lower(_)
Lower(str) ==
  IF Len(str) = 0 THEN ""
  ELSE LET c == SubSeq(str, 1, 1)
       IN (IF c \in DOMAIN LowerOf THEN LowerOf[c] ELSE c)
          \o Lower(SubSeq(str, 2, Len(str)))

\* the suffix test without lower()
IsImageCaseSensitive(ext) == ext \in IMAGE_EXTENSIONS

\* path.suffix.lower() in IMAGE_EXTENSIONS
IsImage(ext) == Lower(ext) \in IMAGE_EXTENSIONS

\* st_size of a file of the given content: "image_content_A" and
\* "image_content_B" have 15 bytes, "image_content_C_longer" has 22
SizeOf(content) == IF content = "C" THEN 22 ELSE 15

\* hashlib.md5 of the content, taken to be free of collisions
Md5(content) == "md5:" \o content

\* get_file_hash(filepath): the digest, or None (here "") when the file
\* cannot be opened or read
get_file_hash(file) == IF file.state = "ok" THEN Md5(file.content) ELSE ""

\* defaultdict(list)[key].append(path), the dict as the list of its items in
\* insertion order
DictAppend(dict, key, path) ==
  IF \E i \in 1 .. Len(dict) : dict[i].key = key
  THEN LET i == CHOOSE i \in 1 .. Len(dict) : dict[i].key = key
       IN [dict EXCEPT ![i].paths = Append(@, path)]
  ELSE Append(dict, [key |-> key, paths |-> <<path>>])

\* lines 55-63 from entry i on: the image files whose stat succeeds, by size
RECURSIVE Walk(_, _, _)
Walk(files, i, size_groups) ==
  IF i > Len(files) THEN size_groups
  ELSE IF IsImage(files[i].ext) /\ files[i].state # "dangling"
  THEN Walk(files, i + 1, DictAppend(size_groups, SizeOf(files[i].content), i))
  ELSE Walk(files, i + 1, size_groups)

MoreThanOne(item) == Len(item.paths) > 1

\* line 66
PotentialGroups(size_groups) ==
  LET kept == SelectSeq(size_groups, MoreThanOne)
  IN [i \in 1 .. Len(kept) |-> kept[i].paths]

\* lines 88-94: the entries appended to duplicates for one size group
Confirmed(files, hash_groups) ==
  LET kept == SelectSeq(hash_groups, MoreThanOne)
  IN [i \in 1 .. Len(kept) |->
        [hash  |-> kept[i].key,
         size  |-> SizeOf(files[kept[i].paths[1]].content),
         files |-> Sorted(Range(kept[i].paths))]]

\* what a directory entry may be: a readable file, a file that stat can see
\* but open cannot read, or an entry whose stat fails
FileBodies ==
  { [content |-> "A", state |-> "ok"], [content |-> "B", state |-> "ok"],
    [content |-> "C", state |-> "ok"], [content |-> "A", state |-> "unreadable"],
    [content |-> "", state |-> "dangling"] }

FileExts == {".jpg", ".HEIC", ".txt"}

FileOptions ==
  {[ext |-> e, content |-> b.content, state |-> b.state] :
     e \in FileExts, b \in FileBodies}

\* temp_image_folder of tests/test_duplicates.py: img1.jpg .. img5.heic
TestFolder ==
  << [ext |-> ".jpg", content |-> "A", state |-> "ok"],
     [ext |-> ".jpg", content |-> "A", state |-> "ok"],
     [ext |-> ".jpg", content |-> "B", state |-> "ok"],
     [ext |-> ".png", content |-> "C", state |-> "ok"],
     [ext |-> ".heic", content |-> "A", state |-> "ok"] >>

DupInit ==
  /\ AggIdle
  /\ LaterIdle
  /\ SharpIdle
  /\ TrashIdle
  /\ RelIdle
  /\ fd_pc = "call"
  /\ fd_root_exists \in BOOLEAN
  /\ fd_files \in IF fd_root_exists
                  THEN [1 .. MaxFiles -> FileOptions] \cup {TestFolder}
                  ELSE {<<>>}
  /\ fd_has_callback \in BOOLEAN
  /\ fd_potential = <<>>
  /\ fd_total = 0
  /\ fd_processed = 0
  /\ fd_gi = 0
  /\ fd_fi = 0
  /\ fd_hash_groups = <<>>
  /\ fd_hashed = <<>>
  /\ fd_callbacks = <<>>
  /\ fd_duplicates = <<>>

\* lines 39-72: the missing root, the walk, the size groups
FindScan ==
  /\ fd_pc = "call"
  /\ IF ~fd_root_exists
     THEN /\ fd_pc' = "done"
          /\ UNCHANGED <<fd_potential, fd_total, fd_gi, fd_fi>>
     ELSE LET potential == PotentialGroups(Walk(fd_files, 1, <<>>))
          IN /\ fd_potential' = potential
             /\ fd_total' = SumSeq([i \in 1 .. Len(potential) |-> Len(potential[i])])
             /\ fd_gi' = 1
             /\ fd_fi' = 1
             /\ fd_pc' = IF potential = <<>> THEN "done" ELSE "hash"
  /\ UNCHANGED <<fd_root_exists, fd_files, fd_has_callback, fd_processed,
                 fd_hash_groups, fd_hashed, fd_callbacks, fd_duplicates>>
  /\ UNCHANGED <<aggVars, earlier, sharpVars, trashVars, relVars, laterVars>>

\* HashFile with processed_count advanced only when the hash was obtained
HashFileCountingSuccesses ==
  /\ fd_pc = "hash"
  /\ LET path  == fd_potential[fd_gi][fd_fi]
         h     == get_file_hash(fd_files[path])
         count == IF h # "" THEN fd_processed + 1 ELSE fd_processed
     IN /\ fd_hashed' = Append(fd_hashed, path)
        /\ fd_processed' = count
        /\ fd_callbacks' = IF fd_has_callback
                           THEN Append(fd_callbacks, <<count, fd_total>>)
                           ELSE fd_callbacks
        /\ fd_hash_groups' = IF h # "" THEN DictAppend(fd_hash_groups, h, path)
                             ELSE fd_hash_groups
  /\ fd_fi' = fd_fi + 1
  /\ fd_pc' = IF fd_fi = Len(fd_potential[fd_gi]) THEN "close" ELSE "hash"
  /\ UNCHANGED <<fd_root_exists, fd_files, fd_has_callback, fd_potential,
                 fd_total, fd_gi, fd_duplicates>>
  /\ UNCHANGED <<aggVars, earlier, sharpVars, trashVars, relVars, laterVars>>

\* lines 78-85: one file of the current size group is hashed and reported
HashFile ==
  /\ fd_pc = "hash"
  /\ LET path == fd_potential[fd_gi][fd_fi]
         h    == get_file_hash(fd_files[path])
     IN /\ fd_hashed' = Append(fd_hashed, path)
        /\ fd_processed' = fd_processed + 1
        /\ fd_callbacks' = IF fd_has_callback
                           THEN Append(fd_callbacks, <<fd_processed + 1, fd_total>>)
                           ELSE fd_callbacks
        /\ fd_hash_groups' = IF h # "" THEN DictAppend(fd_hash_groups, h, path)
                             ELSE fd_hash_groups
  /\ fd_fi' = fd_fi + 1
  /\ fd_pc' = IF fd_fi = Len(fd_potential[fd_gi]) THEN "close" ELSE "hash"
  /\ UNCHANGED <<fd_root_exists, fd_files, fd_has_callback, fd_potential,
                 fd_total, fd_gi, fd_duplicates>>
  /\ UNCHANGED <<aggVars, earlier, sharpVars, trashVars, relVars, laterVars>>

\* lines 88-96: the confirmed duplicates of the size group just hashed, then
\* the next group or the return
CloseGroup ==
  /\ fd_pc = "close"
  /\ fd_duplicates' = fd_duplicates \o Confirmed(fd_files, fd_hash_groups)
  /\ fd_hash_groups' = <<>>
  /\ fd_gi' = fd_gi + 1
  /\ fd_fi' = 1
  /\ fd_pc' = IF fd_gi = Len(fd_potential) THEN "done" ELSE "hash"
  /\ UNCHANGED <<fd_root_exists, fd_files, fd_has_callback, fd_potential,
                 fd_total, fd_processed, fd_hashed, fd_callbacks>>
  /\ UNCHANGED <<aggVars, earlier, sharpVars, trashVars, relVars, laterVars>>

NextDup == FindScan \/ HashFile \/ CloseGroup

SpecDup == DupInit /\ [][NextDup]_vars

\* the entries of the folder that are image files, and those of them whose
\* stat succeeds, and those of them whose content can be read
ImageFiles ==
  {i \in 1 .. Len(fd_files) : Lower(fd_files[i].ext) \in IMAGE_EXTENSIONS}
SizedImages == {i \in ImageFiles : fd_files[i].state # "dangling"}
HashableImages == {i \in ImageFiles : fd_files[i].state = "ok"}

\* the groups of the result that list file i
GroupsOf(i) ==
  {g \in 1 .. Len(fd_duplicates) : i \in Range(fd_duplicates[g].files)}

\* every group lists at least two distinct files, all of its size and hash
GroupsWellFormed ==
  \A g \in 1 .. Len(fd_duplicates) :
    LET group == fd_duplicates[g]
    IN /\ Len(group.files) >= 2
       /\ Cardinality(Range(group.files)) = Len(group.files)
       /\ \A i \in Range(group.files) :
            /\ SizeOf(fd_files[i].content) = group.size
            /\ Md5(fd_files[i].content) = group.hash

\* a file whose content no other image file shares is in no group, and no
\* file is in two groups
GroupsExclusive ==
  LET sized == SizedImages
  IN \A i \in 1 .. Len(fd_files) :
       /\ (~\E j \in sized \ {i} : fd_files[j].content = fd_files[i].content)
            => GroupsOf(i) = {}
       /\ Cardinality(GroupsOf(i)) <= 1

SharingSize ==
  LET sized == SizedImages
  IN {i \in sized :
        \E j \in sized \ {i} :
          SizeOf(fd_files[j].content) = SizeOf(fd_files[i].content)}

\* C17: the progress callback of find_duplicates is called once per hashed
\* file, the k-th call with (k, total), where total is the number of image
\* files sharing their size with another image file; exactly these files are
\* hashed, each once, also those whose hashing fails, so the last call is
\* (total, total); the folder of the tests gives 4 calls, the last (4, 4)
C17_Progress ==
  LET sharing == SharingSize
      total   == Cardinality(sharing)
  IN /\ fd_pc \in {"hash", "close"} => fd_total = total
     /\ fd_processed = Len(fd_hashed)
     /\ Cardinality(Range(fd_hashed)) = Len(fd_hashed)
     /\ Range(fd_hashed) \subseteq sharing
     /\ fd_pc = "done" => Range(fd_hashed) = sharing
     /\ fd_callbacks = IF fd_has_callback
                       THEN [k \in 1 .. Len(fd_hashed) |-> <<k, total>>]
                       ELSE <<>>
     /\ (fd_pc = "done" /\ fd_has_callback /\ fd_files = TestFolder) =>
          /\ Len(fd_callbacks) = 4
          /\ fd_callbacks[4] = <<4, 4>>

\* a finished search with a callback that reported three files, one of them
\* unreadable and not the last
C17_Witness ==
  /\ fd_pc = "done"
  /\ fd_has_callback
  /\ Len(fd_callbacks) = 3
  /\ fd_callbacks[3] = <<3, 3>>
  /\ \E k \in 1 .. 2 : fd_files[fd_hashed[k]].state = "unreadable"

\* a finished search with a callback where an image file of unique size was
\* never hashed
C17_UniqueSizeSkipped ==
  /\ fd_pc = "done"
  /\ fd_has_callback
  /\ Len(fd_callbacks) = 2
  /\ \E i \in SizedImages : i \notin Range(fd_hashed)

(* ------------------------- reader.get_exif_data ------------------------ *)

\* a Python float, kept as the fraction n / d
Float(n, d) == [kind |-> "float", n |-> n, d |-> d]

\* a Python str
Str(text) == [kind |-> "str", text |-> text]

\* an exception leaving an expression
Raise(exc) == [kind |-> "raise", exc |-> exc]

\* str.find(ch) + 1: the first position of ch in str, 0 when absent
Find(str, ch) ==
  LET at == {i \in 1 .. Len(str) : SubSeq(str, i, i) = ch}
  IN IF at = {} THEN 0 ELSE SetMin(at)

\* the number of occurrences of ch in str
CountChar(str, ch) == Cardinality({i \in 1 .. Len(str) : SubSeq(str, i, i) = ch})

DigitChars == "0123456789"

\* the value of each digit character
DigitOf ==
  [c \in {SubSeq(DigitChars, i, i) : i \in 1 .. Len(DigitChars)} |->
     Find(DigitChars, c) - 1]

\* int(str) of a string of digits
RECURSIVE DigitsValue(_)
DigitsValue(str) ==
  IF Len(str) = 0 THEN 0
  ELSE 10 * DigitsValue(SubSeq(str, 1, Len(str) - 1))
       + DigitOf[SubSeq(str, Len(str), Len(str))]

\* float(str) for decimal notation with an optional sign: ValueError for
\* anything that is not digits around at most one point
str_float(str) ==
  LET Decimal(sign, digits, places) ==
        IF /\ Len(digits) > 0
           /\ \A i \in 1 .. Len(digits) :
                SubSeq(digits, i, i) \in DOMAIN DigitOf
        THEN Float(sign * DigitsValue(digits), 10 ^ places)
        ELSE Raise("ValueError")
      Unsigned(sign, body, dot) ==
        IF dot = 0 THEN Decimal(sign, body, 0)
        ELSE Decimal(sign,
                     SubSeq(body, 1, dot - 1) \o SubSeq(body, dot + 1, Len(body)),
                     Len(body) - dot)
      Signed(sign, body) == Unsigned(sign, body, Find(body, "."))
  IN IF Len(str) > 0 /\ SubSeq(str, 1, 1) \in {"+", "-"}
     THEN Signed(IF SubSeq(str, 1, 1) = "-" THEN -1 ELSE 1,
                 SubSeq(str, 2, Len(str)))
     ELSE Signed(1, str)

\* float(a) / float(b)
FloatDiv(a, b) ==
  IF b.n = 0 THEN Raise("ZeroDivisionError") ELSE Float(a.n * b.d, a.d * b.n)

\* bool(value) of a tag value
Truthy(value) ==
  CASE value.kind = "None" -> FALSE
    [] value.kind = "float" -> value.n # 0
    [] value.kind = "str" -> value.text # ""
    [] OTHER -> TRUE

\* a or b
Or(a, b) == IF Truthy(a) THEN a ELSE b

\* try: return float(value) / except ValueError: return None
FloatOrNone(f) == IF f.kind = "raise" THEN None ELSE f

\* str.split(' ')[0]
FirstWord(text, space) ==
  IF space = 0 THEN text ELSE SubSeq(text, 1, space - 1)

\* lines 64-83
parse_val(val) ==
  LET Fraction(n, d, plain) ==
        IF n.kind = "float" /\ d.kind = "float" THEN FloatDiv(n, d)
        ELSE FloatOrNone(plain)
      Split(word, slash) ==
        IF slash # 0 /\ CountChar(word, "/") = 1
        THEN Fraction(str_float(SubSeq(word, 1, slash - 1)),
                      str_float(SubSeq(word, slash + 1, Len(word))),
                      str_float(word))
        ELSE FloatOrNone(str_float(word))
      Word(word) == Split(word, Find(word, "/"))
  IN CASE val.kind = "None" -> None
       [] val.kind = "float" -> val
       [] val.kind = "str" -> Word(FirstWord(val.text, Find(val.text, " ")))
       [] OTHER -> None

\* the values checked at lines 103 and 153
Essential(dict) ==
  {dict.ShutterSpeed, dict.Aperture, dict.FocalLength, dict.ISO}

\* all(...) replaced by any(...)
AnyEssential(dict) == \E v \in Essential(dict) : v # None

\* all(v is not None for v in [shutter_speed, aperture, focal_length, iso])
AllEssential(dict) == \A v \in Essential(dict) : v # None

\* the dict returned at lines 106, 156 and 279
Dict(shutter_speed, aperture, focal_length, iso, lens) ==
  [kind |-> "dict", ShutterSpeed |-> shutter_speed, Aperture |-> aperture,
   FocalLength |-> focal_length, ISO |-> iso, Lens |-> lens]

\* the first exception among the values, if any
FirstRaise(values) ==
  LET raising == {i \in 1 .. Len(values) : values[i].kind = "raise"}
  IN IF raising = {} THEN None ELSE values[SetMin(raising)]

\* lines 44-112: the dict returned, None when the block ends without a
\* return, or the exception that leaves the try body
ExiftoolBody(met) ==
  CASE met.kind = "ImportError" -> Raise("ImportError")
    [] met.kind = "raise" -> Raise(met.exc)
    [] met.kind = "empty" -> None
    [] OTHER ->
         LET Return(failed, dict) ==
               IF failed # None THEN failed
               ELSE IF AllEssential(dict) THEN dict
               ELSE None
             Parsed(shutter_speed, aperture, iso, focal_length, lens_model) ==
               Return(FirstRaise(<<shutter_speed, aperture, iso, focal_length>>),
                      Dict(shutter_speed, aperture, focal_length, iso,
                           lens_model))
             Read(data) ==
               Parsed(parse_val(data.CompositeShutterSpeed),
                      parse_val(data.CompositeAperture),
                      parse_val(Or(data.CompositeISO, data.EXIFISO)),
                      parse_val(Or(data.CompositeFocalLength,
                                   data.EXIFFocalLength)),
                      Or(Or(Or(data.CompositeLensID, data.LensModel),
                            data.LensType), Str("Unknown")))
         IN Read(met.data)

\* str.lstrip(c)
RECURSIVE lstrip(_, _)
lstrip(str, c) ==
  IF Len(str) > 0 /\ SubSeq(str, 1, 1) = c
  THEN lstrip(SubSeq(str, 2, Len(str)), c)
  ELSE str

\* str.strip(c)
strip(str, c) == rstrip(lstrip(str, c), c)

\* an exifread IfdTag with the given values
Tag(values) == [kind |-> "tag", values |-> values]

\* an exifread Ratio
Ratio(num, den) == [kind |-> "Ratio", num |-> num, den |-> den]

\* lines 130-142
get_tag_float(tag) ==
  IF tag = None \/ tag.values = <<>> THEN None
  ELSE LET val == tag.values[1]
       IN CASE val.kind = "Ratio" ->
                 IF val.den = 0 THEN None ELSE Float(val.num, val.den)
            [] val.kind = "float" -> val
            [] val.kind = "str" -> FloatOrNone(str_float(val.text))
            [] OTHER -> None

\* lines 123-162: the dict returned, None when the block ends without a
\* return, or the exception that leaves the try body
ExifreadBody(met) ==
  CASE met.kind = "ImportError" -> Raise("ImportError")
    [] met.kind = "raise" -> Raise(met.exc)
    [] met.kind = "empty" -> None
    [] OTHER ->
         LET Return(dict) == IF AllEssential(dict) THEN dict ELSE None
             LensModel(lens_model_tag) ==
               IF lens_model_tag # None
               THEN Str(strip(lens_model_tag.values, " "))
               ELSE Str("Unknown")
             Iso(iso_tag) ==
               IF iso_tag # None /\ iso_tag.values # <<>>
               THEN iso_tag.values[1] ELSE None
             Read(tags) ==
               Return(Dict(get_tag_float(tags.ExposureTime),
                           get_tag_float(tags.FNumber),
                           get_tag_float(tags.FocalLength),
                           Iso(tags.ISOSpeedRatings),
                           LensModel(IF tags.LensModel # None
                                     THEN tags.LensModel
                                     ELSE tags.MakerNoteLensModel)))
         IN Read(met.tags)

\* a Pillow IFDRational
IFDRational(numerator, denominator) ==
  [kind |-> "IFDRational", numerator |-> numerator, denominator |-> denominator]

\* a Python tuple
Tuple(items) == [kind |-> "tuple", items |-> items]

\* a Python bytes object; "$" stands for the byte \x00
Bytes(text) == [kind |-> "bytes", text |-> text]

\* a key that the dict does not hold
Absent == [kind |-> "absent"]

\* dict.get(key)
Get(value) == IF value = Absent THEN None ELSE value

\* lines 214-238
get_float(value) ==
  CASE value.kind = "None" -> None
    [] value.kind = "IFDRational" ->
         IF value.denominator = 0 THEN None
         ELSE Float(value.numerator, value.denominator)
    [] value.kind = "tuple" /\ Len(value.items) = 2 ->
         LET num == value.items[1]
             den == value.items[2]
         IN IF den.kind = "float" /\ den.n = 0 THEN None
            ELSE IF num.kind = "float" /\ den.kind = "float"
            THEN FloatDiv(num, den)
            ELSE Raise("TypeError")
    [] value.kind = "bytes" -> FloatOrNone(str_float(strip(value.text, "$")))
    [] value.kind = "float" -> value
    [] value.kind = "str" -> FloatOrNone(str_float(value.text))
    [] OTHER -> None

\* iso_raw[0] if isinstance(iso_raw, tuple) else iso_raw
FirstOfTuple(iso_raw) ==
  IF iso_raw.kind # "tuple" THEN iso_raw
  ELSE IF iso_raw.items = <<>> THEN Raise("IndexError")
  ELSE iso_raw.items[1]

ExifKeys == {"ExposureTime", "FNumber", "FocalLength", "ISOSpeedRatings",
             "LensModel"}

\* lines 201-204: exif_data.update(exif_ifd_data)
Update(exif_data, exif_ifd_data) ==
  [k \in ExifKeys |->
     IF exif_ifd_data[k] # Absent THEN exif_ifd_data[k] ELSE exif_data[k]]

\* line 254
PillowRejects(dict, lens_model_raw) ==
  \A v \in Essential(dict) \cup {lens_model_raw} : v = None

\* lines 174-285: the value returned, or the exception that leaves the try
\* body; exif_data_raw holds other tags too, so that it is empty only in
\* the case "empty"
PillowBody(met) ==
  CASE met.kind = "raise" -> Raise(met.exc)
    [] met.kind = "empty" -> None
    [] OTHER ->
         LET Return(failed, dict, lens_model_raw) ==
               IF failed # None THEN failed
               ELSE IF PillowRejects(dict, lens_model_raw) THEN None
               ELSE dict
             Parsed(shutter_speed, aperture, focal_length, iso,
                    lens_model_raw) ==
               Return(FirstRaise(<<shutter_speed, aperture, focal_length, iso>>),
                      Dict(shutter_speed, aperture, focal_length, iso,
                           Or(lens_model_raw, Str("Unknown"))),
                      lens_model_raw)
             Iso(iso_raw) ==
               IF iso_raw.kind = "raise" THEN iso_raw ELSE get_float(iso_raw)
             Read(exif_data) ==
               Parsed(get_float(Get(exif_data.ExposureTime)),
                      get_float(Get(exif_data.FNumber)),
                      get_float(Get(exif_data.FocalLength)),
                      Iso(FirstOfTuple(Get(exif_data.ISOSpeedRatings))),
                      Get(exif_data.LensModel))
         IN Read(Update(met.exif_data_raw,
                        IF met.exif_ifd = [kind |-> "KeyError"]
                        THEN [k \in ExifKeys |-> Absent]
                        ELSE met.exif_ifd))

\* the suffixes looked at: a Pillow format, a raw format in upper case, a
\* high-efficiency format
Suffixes == {".jpg", ".ARW", ".heic"}

\* a file for which exiftool reports every composite tag
ExiftoolData ==
  [CompositeShutterSpeed |-> Str("1/320"), CompositeAperture |-> Float(28, 10),
   CompositeISO |-> Float(100, 1), EXIFISO |-> None,
   CompositeFocalLength |-> Str("21.8 mm"), EXIFFocalLength |-> None,
   CompositeLensID |-> None, LensModel |-> Str("FE 50mm"), LensType |-> None]

\* what the exiftool block can meet: the package missing, the helper or
\* get_tags raising, no metadata, or tags of which one is missing or odd
ExiftoolMeets ==
  {[kind |-> "ImportError"], Raise("ExifToolExecuteError"), [kind |-> "empty"]}
  \cup {[kind |-> "tags", data |-> data] :
          data \in {ExiftoolData,
                    [ExiftoolData EXCEPT !.CompositeISO = Float(0, 1),
                                         !.EXIFISO = Float(200, 1)],
                    [ExiftoolData EXCEPT !.CompositeFocalLength = None,
                                         !.EXIFFocalLength = Float(50, 1)]}
                   \cup {[ExiftoolData EXCEPT ![f] = v] :
                           f \in {"CompositeShutterSpeed", "CompositeAperture",
                                  "CompositeISO", "CompositeFocalLength"},
                           v \in {None, Str("abc"), Str("1/0")}}}

\* a file in which exifread finds every tag
ExifreadTags ==
  [ExposureTime |-> Tag(<<Ratio(1, 320)>>), FNumber |-> Tag(<<Ratio(28, 10)>>),
   FocalLength |-> Tag(<<Ratio(50, 1)>>), ISOSpeedRatings |-> Tag(<<Float(100, 1)>>),
   LensModel |-> Tag("FE 50mm "), MakerNoteLensModel |-> None]

\* what the exifread block can meet
ExifreadMeets ==
  {[kind |-> "ImportError"], Raise("OSError"), [kind |-> "empty"]}
  \cup {[kind |-> "tags", tags |-> tags] :
          tags \in {ExifreadTags,
                    [ExifreadTags EXCEPT !.ISOSpeedRatings = None],
                    [ExifreadTags EXCEPT !.ISOSpeedRatings = Tag(<<>>)],
                    [ExifreadTags EXCEPT !.LensModel = None]}
                   \cup {[ExifreadTags EXCEPT ![f] = v] :
                           f \in {"ExposureTime", "FNumber", "FocalLength"},
                           v \in {None, Tag(<<>>), Tag(<<Ratio(1, 0)>>),
                                  Tag(<<Str("abc")>>)}}}

NoKeys == [k \in ExifKeys |-> Absent]

\* the Exif IFD of a file that holds every tag
ExifIfd ==
  [ExposureTime |-> IFDRational(1, 320), FNumber |-> IFDRational(28, 10),
   FocalLength |-> IFDRational(50, 1), ISOSpeedRatings |-> Float(100, 1),
   LensModel |-> Str("FE 50mm")]

\* what the Pillow block can meet: Image.open raising, no EXIF data, or EXIF
\* data with or without an Exif IFD
PillowMeets ==
  {Raise("FileNotFoundError"), Raise("UnidentifiedImageError"),
   [kind |-> "empty"]}
  \cup {[kind |-> "exif", exif_data_raw |-> NoKeys, exif_ifd |-> ifd] :
          ifd \in {[kind |-> "KeyError"], NoKeys, ExifIfd,
                   [NoKeys EXCEPT !.LensModel = Str("")],
                   [NoKeys EXCEPT !.FNumber = Bytes("2.8$")],
                   [NoKeys EXCEPT !.FNumber = Bytes("abc")],
                   [NoKeys EXCEPT !.ExposureTime = IFDRational(1, 0)],
                   [ExifIfd EXCEPT !.ISOSpeedRatings =
                                     Tuple(<<Float(100, 1), Float(0, 1)>>)],
                   [ExifIfd EXCEPT !.ISOSpeedRatings = Tuple(<<>>)],
                   [ExifIfd EXCEPT !.FocalLength = Tuple(<<None, Float(1, 1)>>)]}}
  \cup {[kind |-> "exif",
         exif_data_raw |-> [NoKeys EXCEPT !.FocalLength = Tuple(<<Float(28, 1), Float(10, 1)>>)],
         exif_ifd |-> ifd] :
          ifd \in {[kind |-> "KeyError"],
                   [NoKeys EXCEPT !.FocalLength = IFDRational(35, 1)]}}

ExifInit ==
  /\ AggIdle
  /\ RestIdle
  /\ SweepIdle
  /\ FinderIdle
  /\ ScanIdle
  /\ CacheIdle
  /\ ge_pc = "call"
  /\ ge_suffix \in Suffixes
  /\ ge_exiftool \in ExiftoolMeets
  /\ ge_exifread \in ExifreadMeets
  /\ ge_pillow \in PillowMeets
  /\ ge_tried = <<>>
  /\ ge_result = None

\* the other components
exifOthers == <<aggVars, earlier, restVars, sweepVars, finderVars, scanVars,
   cacheVars>>

\* the classes that "except Exception" catches
Exceptions ==
  {"ImportError", "ExifToolExecuteError", "OSError", "FileNotFoundError",
   "UnidentifiedImageError", "ValueError", "TypeError", "IndexError",
   "ZeroDivisionError"}

\* except ImportError / except Exception (lines 114-119, 163-170, 286)
Caught(exc) == exc = "ImportError" \/ exc \in Exceptions

\* line 41
Dispatch ==
  /\ ge_pc = "call"
  /\ ge_pc' = IF Lower(ge_suffix) \in FORCE_EXIFTOOL_EXTENSIONS
              THEN "exiftool" ELSE "pillow"
  /\ UNCHANGED <<ge_suffix, ge_exiftool, ge_exifread, ge_pillow, ge_tried,
                 ge_result>>
  /\ UNCHANGED exifOthers

\* lines 43-119
TryExiftool ==
  /\ ge_pc = "exiftool"
  /\ ge_tried' = Append(ge_tried, "exiftool")
  /\ LET body == ExiftoolBody(ge_exiftool)
     IN CASE body.kind = "dict" -> ge_result' = body /\ ge_pc' = "done"
          [] body.kind = "raise" /\ ~Caught(body.exc) ->
               ge_pc' = "raised" /\ UNCHANGED ge_result
          [] OTHER -> ge_pc' = "exifread" /\ UNCHANGED ge_result
  /\ UNCHANGED <<ge_suffix, ge_exiftool, ge_exifread, ge_pillow>>
  /\ UNCHANGED exifOthers

\* lines 121-170
TryExifread ==
  /\ ge_pc = "exifread"
  /\ ge_tried' = Append(ge_tried, "exifread")
  /\ LET body == ExifreadBody(ge_exifread)
     IN CASE body.kind = "dict" -> ge_result' = body /\ ge_pc' = "done"
          [] body.kind = "raise" /\ ~Caught(body.exc) ->
               ge_pc' = "raised" /\ UNCHANGED ge_result
          [] OTHER -> ge_pc' = "pillow" /\ UNCHANGED ge_result
  /\ UNCHANGED <<ge_suffix, ge_exiftool, ge_exifread, ge_pillow>>
  /\ UNCHANGED exifOthers

\* lines 172-292
TryPillow ==
  /\ ge_pc = "pillow"
  /\ ge_tried' = Append(ge_tried, "pillow")
  /\ LET body == PillowBody(ge_pillow)
     IN CASE body.kind = "raise" /\ ~Caught(body.exc) ->
               ge_pc' = "raised" /\ UNCHANGED ge_result
          [] body.kind = "raise" -> ge_result' = None /\ ge_pc' = "done"
          [] OTHER -> ge_result' = body /\ ge_pc' = "done"
  /\ UNCHANGED <<ge_suffix, ge_exiftool, ge_exifread, ge_pillow>>
  /\ UNCHANGED exifOthers

NextExif == Dispatch \/ TryExiftool \/ TryExifread \/ TryPillow

SpecExif == ExifInit /\ [][NextExif]_vars

\* the sources get_exif_data is to try for a suffix, in order
Chain(suffix) ==
  IF Lower(suffix) \in FORCE_EXIFTOOL_EXTENSIONS
  THEN <<"exiftool", "exifread", "pillow">>
  ELSE <<"pillow">>

\* what a source makes of the file: a dict when it yields data
Yield(source) ==
  CASE source = "exiftool" -> ExiftoolBody(ge_exiftool)
    [] source = "exifread" -> ExifreadBody(ge_exifread)
    [] OTHER -> PillowBody(ge_pillow)

\* C21: get_exif_data never raises; the sources are tried in the order
\* exiftool, exifread, Pillow for a suffix in FORCE_EXIFTOOL_EXTENSIONS and
\* Pillow alone otherwise; the first source that yields data gives the
\* result, and no later one is tried; a result of exiftool or exifread has
\* Shutter Speed, Aperture, Focal Length and ISO all non-None; the result is
\* None when no source yields data, as for a missing file or an image
\* without EXIF data
C21_FallbackChain ==
  /\ ge_pc # "raised"
  /\ ge_tried = SubSeq(Chain(ge_suffix), 1, Len(ge_tried))
  /\ \A i \in 1 .. Len(ge_tried) :
       (ge_pc # "done" \/ i < Len(ge_tried)) => Yield(ge_tried[i]).kind # "dict"
  /\ ge_pc = "done" =>
       /\ ge_tried # <<>>
       /\ LET last == ge_tried[Len(ge_tried)]
          IN /\ ge_result # None =>
                  /\ ge_result.kind = "dict"
                  /\ ge_result = Yield(last)
                  /\ last \in {"exiftool", "exifread"} =>
                       /\ ge_result.ShutterSpeed # None
                       /\ ge_result.Aperture # None
                       /\ ge_result.FocalLength # None
                       /\ ge_result.ISO # None
             /\ ge_result = None =>
                  /\ ge_tried = Chain(ge_suffix)
                  /\ Yield(last).kind # "dict"
       /\ ge_pillow.kind \in {"raise", "empty"} /\ ge_suffix = ".jpg"
            => ge_result = None

\* a raw file in upper case for which exiftool reported tags with one of
\* them missing, exifread raised, and Pillow gave the result
C21_Witness ==
  /\ ge_pc = "done"
  /\ ge_suffix = ".ARW"
  /\ ge_tried = <<"exiftool", "exifread", "pillow">>
  /\ ge_exiftool.kind = "tags"
  /\ ge_exifread.kind = "raise"
  /\ ge_result # None
  /\ ge_result.Aperture # None

\* a raw file for which exifread gave the result after exiftool failed on
\* a fraction with denominator zero
C21_ExifreadWins ==
  /\ ge_pc = "done"
  /\ ge_tried = <<"exiftool", "exifread">>
  /\ ExiftoolBody(ge_exiftool) = Raise("ZeroDivisionError")
  /\ ge_result # None

(* --------------- utils.aggregate_focal_lengths.get_groups -------------- *)

\* values (hundredths of a mm) with steps of exactly 10 % and 12.5 %, of
\* just under 10 %, and far apart, and the two that are not positive
SweepValues == {-1000, 0, 1000, 1100, 1125, 1200, 2000, 3100}

\* the sorted lists of at most n distinct values
SortedListsUpTo(n) ==
  {Sorted(S) : S \in {T \in SUBSET SweepValues : T # {} /\ Cardinality(T) <= n}}

\* thresholds in units of 1/ThresholdScale: 0.0, just under and just over
\* 0.1, 0.125, 0.5, 1.0 and 2.0
Thresholds ==
  {0, 52428, 52429, ThresholdScale \div 8, ThresholdScale \div 2,
   ThresholdScale, HighInit}

SweepInit ==
  /\ AggIdle
  /\ RestIdle
  /\ ExifIdle
  /\ FinderIdle
  /\ ScanIdle
  /\ CacheIdle
  /\ gg_pc = "call"
  /\ gg_unique \in SortedListsUpTo(MaxSweepLen)
  /\ gg_threshold \in Thresholds
  /\ gg_i = 0
  /\ gg_current = <<>>
  /\ gg_groups = <<>>

\* the other components
sweepOthers == <<aggVars, earlier, restVars, exifVars, finderVars, scanVars,
   cacheVars>>

\* lines 148-152
GroupsStart ==
  /\ gg_pc = "call"
  /\ gg_groups' = <<>>
  /\ IF gg_unique = <<>>
     THEN gg_pc' = "done" /\ UNCHANGED <<gg_current, gg_i>>
     ELSE /\ gg_current' = <<gg_unique[1]>>
          /\ gg_i' = 2
          /\ gg_pc' = "loop"
  /\ UNCHANGED <<gg_unique, gg_threshold>>
  /\ UNCHANGED sweepOthers

\* GroupsStep with the test made against the previous value, not the first
\* value of the group
GroupsStepMovingWindow ==
  /\ gg_pc = "loop"
  /\ gg_i <= Len(gg_unique)
  /\ LET fl == gg_unique[gg_i]
     IN IF gg_current[Len(gg_current)] = 0
        THEN gg_pc' = "raised" /\ UNCHANGED <<gg_i, gg_current, gg_groups>>
        ELSE /\ IF Within(fl, gg_current[Len(gg_current)], gg_threshold)
                THEN /\ gg_current' = Append(gg_current, fl)
                     /\ UNCHANGED gg_groups
                ELSE /\ gg_groups' = Append(gg_groups, gg_current)
                     /\ gg_current' = <<fl>>
             /\ gg_i' = gg_i + 1
             /\ UNCHANGED gg_pc
  /\ UNCHANGED <<gg_unique, gg_threshold>>
  /\ UNCHANGED sweepOthers

\* lines 154-161: one iteration of the for loop
GroupsStep ==
  /\ gg_pc = "loop"
  /\ gg_i <= Len(gg_unique)
  /\ LET fl == gg_unique[gg_i]
     IN IF gg_current[1] = 0
        THEN gg_pc' = "raised" /\ UNCHANGED <<gg_i, gg_current, gg_groups>>
        ELSE /\ IF Within(fl, gg_current[1], gg_threshold)
                THEN /\ gg_current' = Append(gg_current, fl)
                     /\ UNCHANGED gg_groups
                ELSE /\ gg_groups' = Append(gg_groups, gg_current)
                     /\ gg_current' = <<fl>>
             /\ gg_i' = gg_i + 1
             /\ UNCHANGED gg_pc
  /\ UNCHANGED <<gg_unique, gg_threshold>>
  /\ UNCHANGED sweepOthers

\* lines 162-163
GroupsEnd ==
  /\ gg_pc = "loop"
  /\ gg_i > Len(gg_unique)
  /\ gg_groups' = Append(gg_groups, gg_current)
  /\ gg_pc' = "done"
  /\ UNCHANGED <<gg_unique, gg_threshold, gg_i, gg_current>>
  /\ UNCHANGED sweepOthers

NextSweep == GroupsStart \/ GroupsStep \/ GroupsEnd

SpecSweep == SweepInit /\ [][NextSweep]_vars

\* the groups of the finished call are those of get_groups as a function
SweepAgrees ==
  gg_pc = "done" => gg_groups = get_groups(gg_unique, gg_threshold).groups

\* C23: for sorted distinct positive values the number of groups of the
\* sweep does not grow with the threshold: a larger threshold gives at most
\* as many groups, a smaller one at least as many
C23_MonotoneCount ==
  (gg_pc = "done" /\ gg_unique[1] > 0) =>
    \A t \in Thresholds :
      LET n == Len(get_groups(gg_unique, t).groups)
      IN /\ t >= gg_threshold => n <= Len(gg_groups)
         /\ t <= gg_threshold => n >= Len(gg_groups)

\* a finished sweep of positive values with several groups, fewer than at
\* some smaller threshold and more than at some larger one
C23_Witness ==
  /\ gg_pc = "done"
  /\ gg_unique[1] > 0
  /\ Len(gg_groups) > 1
  /\ \E t1, t2 \in Thresholds :
       /\ t1 < gg_threshold
       /\ gg_threshold < t2
       /\ Len(get_groups(gg_unique, t1).groups) > Len(gg_groups)
       /\ Len(get_groups(gg_unique, t2).groups) < Len(gg_groups)

\* (value - anchor) / anchor <= threshold for 0 < anchor <= value, by the
\* rounded-up quotient of the distance in threshold units
RelWithin(value, anchor, threshold) ==
  ((value - anchor) * ThresholdScale + anchor - 1) \div anchor <= threshold

\* the groups one after the other
RECURSIVE Concat(_)
Concat(groups) ==
  IF groups = <<>> THEN <<>> ELSE Head(groups) \o Concat(Tail(groups))

\* the groups closed so far and the one being built
GroupsSoFar ==
  IF gg_pc = "loop" THEN Append(gg_groups, gg_current) ELSE gg_groups

\* C24: in the sweep over positive values at threshold t, the groups are
\* the values taken so far in order; the first value of a group is its
\* anchor and minimum; a value is in the current group iff its distance from
\* the anchor, relative to the anchor, is <= t: every member is within t of
\* its anchor, and the first value of each later group, the value that
\* closed the group before it, is farther than t from that group's anchor;
\* hence (max - min) / min <= t <= 2.0 and max <= 3 * min in every group
C24_AnchorGrouping ==
  (gg_pc \in {"loop", "done"} /\ gg_unique[1] > 0) =>
    LET groups == GroupsSoFar
    IN /\ Concat(groups) = SubSeq(gg_unique, 1, gg_i - 1)
       /\ gg_threshold <= HighInit
       /\ \A k \in 1 .. Len(groups) :
            LET anchor == groups[k][1]
            IN /\ anchor = SetMin(Range(groups[k]))
               /\ \A v \in Range(groups[k]) : RelWithin(v, anchor, gg_threshold)
               /\ SetMax(Range(groups[k])) <= 3 * anchor
               /\ k > 1 => ~RelWithin(anchor, groups[k - 1][1], gg_threshold)

\* a finished sweep of positive values with a group of three values whose
\* last value is exactly at the threshold from the anchor, followed by
\* another group
C24_Witness ==
  /\ gg_pc = "done"
  /\ gg_unique[1] > 0
  /\ Len(gg_groups) >= 2
  /\ Len(gg_groups[1]) = 3
  /\ (gg_groups[1][3] - gg_groups[1][1]) * ThresholdScale
       = gg_threshold * gg_groups[1][1]

\* (last - first) / first > threshold for a group; the quotient is not
\* positive when first is negative, and a group that starts with 0 has no
\* other member
Wider(group, threshold) ==
  /\ group[1] > 0
  /\ ~RelWithin(group[Len(group)], group[1], threshold)

\* C25 as stated: there are a list of values and a threshold for which the
\* sweep builds a group whose last member is farther than the threshold
\* from its first, relative to the first (looked for among all lists and
\* thresholds once a sweep has finished)
C25_Original ==
  gg_pc = "done" =>
    \E unique \in SortedListsUpTo(MaxSweepLen), t \in Thresholds :
      LET g == get_groups(unique, t)
      IN ~g.raised /\ \E k \in 1 .. Len(g.groups) : Wider(g.groups[k], t)

\* three values in a row of which each is within the threshold of the one
\* before it, but the third is not within the threshold of the first
ChainAt(i) ==
  /\ i + 2 <= Len(gg_unique)
  /\ gg_unique[i] > 0
  /\ RelWithin(gg_unique[i + 1], gg_unique[i], gg_threshold)
  /\ RelWithin(gg_unique[i + 2], gg_unique[i + 1], gg_threshold)
  /\ ~RelWithin(gg_unique[i + 2], gg_unique[i], gg_threshold)

\* C25: no group built by the sweep at threshold t grows to more than t
\* relative width between its first and last member: (last - first) / first
\* <= t at every moment of the sweep, also when each consecutive step of a
\* chain of values is within t; a chain that starts at an anchor is cut
C25_GroupWidth ==
  /\ gg_pc \in {"loop", "done"} =>
       \A k \in 1 .. Len(GroupsSoFar) : ~Wider(GroupsSoFar[k], gg_threshold)
  /\ gg_pc = "done" =>
       \A i \in 1 .. Len(gg_unique) :
         (ChainAt(i) /\ \E k \in 1 .. Len(gg_groups) : gg_groups[k][1] = gg_unique[i])
           => \E k \in 1 .. Len(gg_groups) : gg_groups[k][1] = gg_unique[i + 2]

\* a finished sweep that cut such a chain: the chain's first value is an
\* anchor and its third value the next one
C25_Witness ==
  /\ gg_pc = "done"
  /\ \E i \in 1 .. Len(gg_unique), k \in 1 .. Len(gg_groups) :
       /\ ChainAt(i)
       /\ k < Len(gg_groups)
       /\ gg_groups[k] = <<gg_unique[i], gg_unique[i + 1]>>
       /\ gg_groups[k + 1][1] = gg_unique[i + 2]

(* ------------------------- gui.DuplicateFinder ------------------------- *)

Contents == {"A", "B"}

\* the files of the folder, named by their position in sorted order
Copies == 1 .. MaxCopies

\* what find_duplicates returns for the folder once the trashed files are
\* gone: the sorted files of every content that two or more files share
FinderGroups(content, trashed) ==
  LET disk    == DOMAIN content \ trashed
      same(f) == {g \in disk : content[g] = content[f]}
      firsts  == Sorted({f \in disk : Cardinality(same(f)) > 1 /\ f = SetMin(same(f))})
  IN [i \in 1 .. Len(firsts) |-> Sorted(same(firsts[i]))]

\* a message box of the given kind; n is the number it shows, if any
Message(kind, n) == [kind |-> kind, n |-> n]

FinderInit ==
  /\ AggIdle
  /\ RestIdle
  /\ ExifIdle
  /\ SweepIdle
  /\ ScanIdle
  /\ CacheIdle
  /\ df_content \in [Copies -> Contents]
  /\ df_trashed = {}
  /\ df_folder = ""
  /\ df_is_scanning = FALSE
  /\ df_found = <<>>
  /\ df_check_vars = <<>>
  /\ df_messages = <<>>
  /\ df_run = NoRun

\* the other components
finderOthers == <<aggVars, earlier, restVars, exifVars, sweepVars, scanVars,
   cacheVars>>

\* the user types into, or empties, the Images Folder entry (line 321)
EditFolder ==
  /\ df_folder' \in {"", "photos"} \ {df_folder}
  /\ UNCHANGED <<df_content, df_trashed, df_is_scanning, df_found,
                 df_check_vars, df_messages, df_run>>
  /\ UNCHANGED finderOthers

\* the user ticks or unticks the box of a displayed file (lines 494-496)
Toggle(f) ==
  /\ f \in DOMAIN df_check_vars
  /\ df_check_vars' = [df_check_vars EXCEPT ![f] = ~@]
  /\ UNCHANGED <<df_content, df_trashed, df_folder, df_is_scanning, df_found,
                 df_messages, df_run>>
  /\ UNCHANGED finderOthers

\* lines 384-402, start_scan, after the message boxes shown before it
StartScanAfter(shown) ==
  IF df_folder = ""
  THEN /\ df_messages' = Append(shown, Message("error: select a folder", 0))
       /\ UNCHANGED <<df_is_scanning, df_found, df_check_vars>>
  ELSE /\ df_messages' = shown
       /\ df_is_scanning' = TRUE
       /\ df_check_vars' = <<>>
       /\ df_found' = <<>>

\* the Find Duplicates button, disabled while a scan runs (lines 333, 391)
StartScan ==
  /\ ~df_is_scanning
  /\ StartScanAfter(<<>>)
  /\ UNCHANGED <<df_content, df_trashed, df_folder, df_run>>
  /\ UNCHANGED finderOthers

\* lines 404-447 and 449-496: the scan thread finds the duplicates, and the
\* main thread runs display_results and scan_finished, which the thread
\* posts one after the other
ScanCompletes ==
  /\ df_is_scanning
  /\ LET duplicates == FinderGroups(df_content, df_trashed)
     IN /\ df_found' = duplicates
        /\ df_check_vars' =
             [f \in UNION {Range(duplicates[i]) : i \in 1 .. Len(duplicates)} |-> FALSE]
  /\ df_is_scanning' = FALSE
  /\ UNCHANGED <<df_content, df_trashed, df_folder, df_messages, df_run>>
  /\ UNCHANGED finderOthers

\* self.check_vars.get(f) and self.check_vars[f].get()
Ticked(f) == f \in DOMAIN df_check_vars /\ df_check_vars[f]

\* lines 503-518 without the return: the ticked files of all groups in order
RECURSIVE ToDelete(_)
ToDelete(groups) ==
  IF groups = <<>> THEN <<>>
  ELSE SelectSeq(Head(groups), Ticked) \o ToDelete(Tail(groups))

\* lines 505-509: some group has every file ticked
FullGroup(groups) ==
  \E i \in 1 .. Len(groups) :
    Len(SelectSeq(groups[i], Ticked)) = Len(groups[i])

\* what move_to_trash hands back to "if move_to_trash(fpath):": the function
\* of duplicates.py lines 99-103 has no return statement
MoveToTrashReturns == None

\* lines 499-534, delete_selected; confirm is the answer to askyesno, and
\* fail_at the position in to_delete of a file on which send2trash raises
\* although it is there (0: none); send2trash also raises on a file that is
\* no longer there
DeleteSelected(confirm, fail_at) ==
  LET to_delete == ToDelete(df_found)
      raising   == {i \in 1 .. Len(to_delete) : to_delete[i] \in df_trashed}
                   \cup ({fail_at} \ {0})
      stop      == IF raising = {} THEN Len(to_delete) + 1 ELSE SetMin(raising)
      moved     == {to_delete[i] : i \in 1 .. stop - 1}
      deleted_count ==
        Cardinality({f \in moved : Truthy(MoveToTrashReturns)})
      run       == [ran |-> TRUE, full_group |-> FullGroup(df_found),
                    selected |-> Len(to_delete), moved |-> 0, raised |-> FALSE,
                    shown |-> <<>>]
      ask       == Message("confirm", Len(to_delete))
      success   == Message("success: moved n files", deleted_count)
      error     == Message("error: cannot delete all copies", 0)
      info      == Message("info: no files selected", 0)
  IN /\ fail_at <= Len(to_delete)
     /\ IF FullGroup(df_found)
        THEN /\ df_messages' = <<error>>
             /\ df_run' = [run EXCEPT !.shown = <<error>>]
             /\ UNCHANGED <<df_trashed, df_is_scanning, df_found, df_check_vars>>
        ELSE IF to_delete = <<>>
        THEN /\ df_messages' = <<info>>
             /\ df_run' = [run EXCEPT !.shown = <<info>>]
             /\ UNCHANGED <<df_trashed, df_is_scanning, df_found, df_check_vars>>
        ELSE IF ~confirm
        THEN /\ df_messages' = <<ask>>
             /\ df_run' = [run EXCEPT !.shown = <<ask>>]
             /\ UNCHANGED <<df_trashed, df_is_scanning, df_found, df_check_vars>>
        ELSE /\ df_trashed' = df_trashed \cup moved
             /\ IF stop <= Len(to_delete)
                THEN /\ df_messages' = <<ask>>
                     /\ df_run' = [run EXCEPT !.moved = Cardinality(moved),
                                              !.raised = TRUE,
                                              !.shown = <<ask>>]
                     /\ UNCHANGED <<df_is_scanning, df_found, df_check_vars>>
                ELSE /\ df_run' = [run EXCEPT !.moved = Cardinality(moved),
                                              !.shown = <<ask, success>>]
                     /\ StartScanAfter(<<ask, success>>)
     /\ UNCHANGED <<df_content, df_folder>>
     /\ UNCHANGED finderOthers

NextFinder ==
  \/ EditFolder
  \/ \E f \in Copies : Toggle(f)
  \/ StartScan
  \/ ScanCompletes
  \/ \E confirm \in BOOLEAN, fail_at \in 0 .. MaxCopies :
       DeleteSelected(confirm, fail_at)

SpecFinder == FinderInit /\ [][NextFinder]_vars

\* C26: a run of delete_selected that finds every file of a displayed group
\* ticked shows the error and moves nothing to trash; and whatever runs of
\* delete_selected there were, every displayed group has a file that was not
\* moved to trash
C26_KeepsOneCopy ==
  /\ (df_run.ran /\ df_run.full_group) =>
       /\ df_run.moved = 0
       /\ df_run.shown = <<Message("error: cannot delete all copies", 0)>>
  /\ \A i \in 1 .. Len(df_found) :
       \E f \in Range(df_found[i]) : f \notin df_trashed

\* C30: the number shown in "Moved N files to trash" is the number of files
\* the run of delete_selected moved to trash, and no run of delete_selected
\* is ended by the failure of move_to_trash on one file
C30_ReportsTruth ==
  /\ \A i \in 1 .. Len(df_run.shown) :
       df_run.shown[i].kind = "success: moved n files"
         => df_run.shown[i].n = df_run.moved
  /\ ~df_run.raised

\* ---------------------------------------------------------------------
\* sharpness_gui.SharpnessTool: the scan thread, the callbacks it posts to
\* the main thread and the deletion of the selected candidate. Paths are
\* numbered in the order of their file names.

\* list.index(x) + 1: the first position of x, 0 when x is not in the list
IndexOf(list, x) ==
  LET at == {i \in 1 .. Len(list) : list[i] = x}
  IN IF at = {} THEN 0 ELSE SetMin(at)

\* list.pop(i - 1)
Pop(list, i) == SubSeq(list, 1, i - 1) \o SubSeq(list, i + 1, Len(list))

\* "if x in list: list.remove(x)"
Remove(list, x) == IF IndexOf(list, x) = 0 THEN list ELSE Pop(list, IndexOf(list, x))

\* dict[key] = value
Put(dict, key, value) ==
  [k \in DOMAIN dict \cup {key} |-> IF k = key THEN value ELSE dict[k]]

\* "if key in dict: del dict[key]"
Del(dict, key) == [k \in DOMAIN dict \ {key} |-> dict[k]]

\* lines 306-340: the tool after construction, the folder holding images
ScanInit ==
  /\ AggIdle
  /\ RestIdle
  /\ ExifIdle
  /\ SweepIdle
  /\ FinderIdle
  /\ CacheIdle
  /\ st_disk = 1 .. MaxScanFiles
  /\ st_sorted_files = <<>>
  /\ st_candidates = <<>>
  /\ st_files_map = <<>>
  /\ st_selection = 0
  /\ st_is_scanning = FALSE
  /\ st_stop_event = FALSE
  /\ st_has_switched = FALSE
  /\ st_thread = NoThread
  /\ st_after = <<>>
  /\ st_dialog = NoDialog
  /\ st_log = NoLog

\* the other components
scanOthers == <<aggVars, earlier, restVars, exifVars, sweepVars, finderVars,
   cacheVars>>

\* the confirmation dialog is modal: no other input while it is open
UserFree == ~st_dialog.open

\* lines 875-922: Browse... on the Configuration tab, which is disabled
\* during a scan (lines 955, 1125)
BrowseFolder ==
  /\ UserFree
  /\ ~st_is_scanning
  /\ st_sorted_files' = Sorted(st_disk)
  /\ st_candidates' = Sorted(st_disk)
  /\ st_files_map' = [f \in st_disk |-> "N/A"]
  /\ st_selection' = IF st_disk = {} THEN 0 ELSE 1
  /\ UNCHANGED <<st_disk, st_is_scanning, st_stop_event, st_has_switched,
                 st_thread, st_after, st_dialog, st_log>>
  /\ UNCHANGED scanOthers

\* lines 1112-1121: the row selected after switch_to_review_mode
SwitchToReviewMode(selection, candidates) ==
  IF selection = 0 /\ candidates # <<>> THEN 1 ELSE selection

\* lines 941-996, for an existing folder: Start Scan on the Configuration
\* tab
SharpnessStartScan ==
  /\ UserFree
  /\ ~st_is_scanning
  /\ st_log.started < MaxScans
  /\ st_is_scanning' = TRUE
  /\ st_stop_event' = FALSE
  /\ st_has_switched' = TRUE
  /\ st_selection' = SwitchToReviewMode(st_selection, st_candidates)
  /\ st_thread' = [pc |-> "begin", i |-> 0, f |-> 0, total |-> 0]
  /\ st_log' = [st_log EXCEPT !.started = @ + 1, !.analysed = <<>>,
                              !.deleted = {}, !.ended = ""]
  /\ UNCHANGED <<st_disk, st_sorted_files, st_candidates, st_files_map,
                 st_after, st_dialog>>
  /\ UNCHANGED scanOthers

\* lines 998-1001: Cancel Scan on the Scanning tab
CancelScan ==
  /\ UserFree
  /\ st_is_scanning
  /\ ~st_stop_event
  /\ st_stop_event' = TRUE
  /\ UNCHANGED <<st_disk, st_sorted_files, st_candidates, st_files_map,
                 st_selection, st_is_scanning, st_has_switched, st_thread,
                 st_after, st_dialog, st_log>>
  /\ UNCHANGED scanOthers

\* lines 1140-1152: the user selects another row of the listbox
OnCandidateSelect(row) ==
  /\ UserFree
  /\ row \in 1 .. Len(st_candidates)
  /\ row # st_selection
  /\ st_selection' = row
  /\ UNCHANGED <<st_disk, st_sorted_files, st_candidates, st_files_map,
                 st_is_scanning, st_stop_event, st_has_switched, st_thread,
                 st_after, st_dialog, st_log>>
  /\ UNCHANGED scanOthers

\* the callbacks that the scan thread posts
Result(path, idx, total) ==
  [kind |-> "result", path |-> path, idx |-> idx, total |-> total]

Finished == [kind |-> "scan_finished", path |-> 0, idx |-> 0, total |-> 0]

\* lines 1004-1016: the thread starts on the list that sorted_files names
ThreadBegin ==
  /\ st_thread.pc = "begin"
  /\ IF st_sorted_files = <<>>
     THEN /\ st_after' = Append(st_after, Finished)
          /\ st_thread' = [st_thread EXCEPT !.pc = "done"]
          /\ st_log' = [st_log EXCEPT !.ended = "empty"]
     ELSE /\ st_thread' = [st_thread EXCEPT !.pc = "next",
                                            !.total = Len(st_sorted_files)]
          /\ UNCHANGED <<st_after, st_log>>
  /\ UNCHANGED <<st_disk, st_sorted_files, st_candidates, st_files_map,
                 st_selection, st_is_scanning, st_stop_event, st_has_switched,
                 st_dialog>>
  /\ UNCHANGED scanOthers

\* lines 1018-1021 and 1042: "for i, f in enumerate(files)" takes the item
\* at the position after the last one taken, in the list as it is now; the
\* loop ends when there is none, or by the break
ThreadNext ==
  /\ st_thread.pc = "next"
  /\ IF st_thread.i >= Len(st_sorted_files)
     THEN /\ st_thread' = [st_thread EXCEPT !.pc = "finish"]
          /\ st_log' = [st_log EXCEPT !.ended = "complete"]
     ELSE IF st_stop_event
     THEN /\ st_thread' = [st_thread EXCEPT !.pc = "finish", !.i = @ + 1,
                                            !.f = st_sorted_files[st_thread.i + 1]]
          /\ st_log' = [st_log EXCEPT !.ended = "cancelled"]
     ELSE /\ st_thread' = [st_thread EXCEPT !.pc = "analyse", !.i = @ + 1,
                                            !.f = st_sorted_files[st_thread.i + 1]]
          /\ UNCHANGED st_log
  /\ UNCHANGED <<st_disk, st_sorted_files, st_candidates, st_files_map,
                 st_selection, st_is_scanning, st_stop_event, st_has_switched,
                 st_after, st_dialog>>
  /\ UNCHANGED scanOthers

\* an exception in the loop ends the thread
ThreadAnalyseUncaught(raises) ==
  /\ st_thread.pc = "analyse"
  /\ st_log' = [st_log EXCEPT !.analysed = Append(@, st_thread.f),
                              !.ended = IF raises THEN "exception" ELSE @]
  /\ st_thread' = [st_thread EXCEPT !.pc = IF raises THEN "done" ELSE "post"]
  /\ UNCHANGED <<st_disk, st_sorted_files, st_candidates, st_files_map,
                 st_selection, st_is_scanning, st_stop_event, st_has_switched,
                 st_after, st_dialog>>
  /\ UNCHANGED scanOthers

\* lines 1023-1032 and 1044-1048: the file is analysed; an exception goes
\* to the handler, which logs it
ThreadAnalyse(raises) ==
  /\ st_thread.pc = "analyse"
  /\ st_log' = [st_log EXCEPT !.analysed = Append(@, st_thread.f),
                              !.ended = IF raises THEN "exception" ELSE @]
  /\ st_thread' = [st_thread EXCEPT !.pc = IF raises THEN "finish" ELSE "post"]
  /\ UNCHANGED <<st_disk, st_sorted_files, st_candidates, st_files_map,
                 st_selection, st_is_scanning, st_stop_event, st_has_switched,
                 st_after, st_dialog>>
  /\ UNCHANGED scanOthers

\* lines 1035-1040
ThreadPost ==
  /\ st_thread.pc = "post"
  /\ st_after' = Append(st_after,
                        Result(st_thread.f, st_thread.i, st_thread.total))
  /\ st_thread' = [st_thread EXCEPT !.pc = "next"]
  /\ UNCHANGED <<st_disk, st_sorted_files, st_candidates, st_files_map,
                 st_selection, st_is_scanning, st_stop_event, st_has_switched,
                 st_dialog, st_log>>
  /\ UNCHANGED scanOthers

\* line 1050
ThreadFinish ==
  /\ st_thread.pc = "finish"
  /\ st_after' = Append(st_after, Finished)
  /\ st_thread' = [st_thread EXCEPT !.pc = "done"]
  /\ UNCHANGED <<st_disk, st_sorted_files, st_candidates, st_files_map,
                 st_selection, st_is_scanning, st_stop_event, st_has_switched,
                 st_dialog, st_log>>
  /\ UNCHANGED scanOthers

\* lines 1100-1107: candidates.index(path) raises ValueError for a path
\* that is not in candidates
LookaheadRaises(path) ==
  /\ st_has_switched
  /\ st_selection # 0
  /\ IndexOf(st_candidates, path) = 0

\* lines 1052-1110: the main loop runs the callback of a result
ProcessScanResult ==
  /\ st_after # <<>>
  /\ Head(st_after).kind = "result"
  /\ st_after' = Tail(st_after)
  /\ IF ~st_is_scanning
     THEN /\ st_log' = [st_log EXCEPT !.dropped = @ + 1]
          /\ UNCHANGED st_files_map
     ELSE /\ st_files_map' = Put(st_files_map, Head(st_after).path, "scanned")
          /\ st_log' = [st_log EXCEPT
                          !.readded = @ \/ Head(st_after).path \notin DOMAIN st_files_map,
                          !.raised = @ \/ LookaheadRaises(Head(st_after).path)]
  /\ UNCHANGED <<st_disk, st_sorted_files, st_candidates, st_selection,
                 st_is_scanning, st_stop_event, st_has_switched, st_thread,
                 st_dialog>>
  /\ UNCHANGED scanOthers

\* lines 1123-1138: the main loop runs scan_finished
ScanFinished ==
  /\ st_after # <<>>
  /\ Head(st_after).kind = "scan_finished"
  /\ st_after' = Tail(st_after)
  /\ st_is_scanning' = FALSE
  /\ st_log' = [st_log EXCEPT !.finished = @ + 1]
  /\ IF st_candidates # <<>> /\ ~st_has_switched
     THEN /\ st_has_switched' = TRUE
          /\ st_selection' = SwitchToReviewMode(st_selection, st_candidates)
     ELSE UNCHANGED <<st_has_switched, st_selection>>
  /\ UNCHANGED <<st_disk, st_sorted_files, st_candidates, st_files_map,
                 st_stop_event, st_thread, st_dialog>>
  /\ UNCHANGED scanOthers

\* lines 1519-1530: Delete asks for the row selected
DeleteAsk ==
  /\ UserFree
  /\ st_selection # 0
  /\ st_dialog' = [open |-> TRUE, idx |-> st_selection,
                   path |-> st_candidates[st_selection]]
  /\ UNCHANGED <<st_disk, st_sorted_files, st_candidates, st_files_map,
                 st_selection, st_is_scanning, st_stop_event, st_has_switched,
                 st_thread, st_after, st_log>>
  /\ UNCHANGED scanOthers

\* lines 1569-1573: the row selected after the deletion
RowAfterDelete(idx, candidates) ==
  IF candidates = <<>> THEN 0
  ELSE IF idx <= Len(candidates) THEN idx ELSE idx - 1

\* lines 1527-1581: the answer; gone tells whether the file and its
\* related files have all left the folder
DeleteCurrentCandidate(yes, gone) ==
  /\ st_dialog.open
  /\ st_dialog' = NoDialog
  /\ IF yes /\ gone
     THEN /\ st_disk' = st_disk \ {st_dialog.path}
          /\ st_candidates' = Pop(st_candidates, st_dialog.idx)
          /\ st_sorted_files' = Remove(st_sorted_files, st_dialog.path)
          /\ st_files_map' = Del(st_files_map, st_dialog.path)
          /\ st_selection' = RowAfterDelete(st_dialog.idx,
                                            Pop(st_candidates, st_dialog.idx))
          /\ st_log' = [st_log EXCEPT
                          !.deleted = IF st_is_scanning
                                      THEN @ \cup {st_dialog.path} ELSE @]
     ELSE UNCHANGED <<st_disk, st_candidates, st_sorted_files, st_files_map,
                      st_selection, st_log>>
  /\ UNCHANGED <<st_is_scanning, st_stop_event, st_has_switched, st_thread,
                 st_after>>
  /\ UNCHANGED scanOthers

\* a step of the scan thread
ThreadStep ==
  \/ ThreadBegin
  \/ ThreadNext
  \/ \E raises \in BOOLEAN : ThreadAnalyse(raises)
  \/ ThreadPost
  \/ ThreadFinish

\* the main loop runs the callback posted first
MainLoop == ProcessScanResult \/ ScanFinished

NextScan ==
  \/ BrowseFolder
  \/ SharpnessStartScan
  \/ CancelScan
  \/ \E row \in 1 .. MaxScanFiles : OnCandidateSelect(row)
  \/ DeleteAsk
  \/ \E yes \in BOOLEAN, gone \in BOOLEAN : DeleteCurrentCandidate(yes, gone)
  \/ ThreadStep
  \/ MainLoop

SpecScan == ScanInit /\ [][NextScan]_vars

\* the scan thread is scheduled, and the main loop runs the callbacks
\* posted with after(0, ...)
SpecScanFair == SpecScan /\ WF_vars(ThreadStep) /\ WF_vars(MainLoop)

\* how often the running scan analysed the file
TimesAnalysed(f) ==
  Cardinality({i \in 1 .. Len(st_log.analysed) : st_log.analysed[i] = f})

\* C29: when delete_current_candidate removes a file while a scan is
\* running, a scan that runs to the end of the list has analysed every
\* remaining file of sorted_files exactly once; a result that arrives for a
\* deleted path does not put the path back into files_map and
\* process_scan_result does not raise; candidates, sorted_files and the
\* keys of files_map are equal as sets
C29_ScanVersusDelete ==
  /\ st_log.ended = "complete" =>
       \A f \in Range(st_sorted_files) : TimesAnalysed(f) = 1
  /\ ~st_log.readded
  /\ ~st_log.raised
  /\ Range(st_candidates) = Range(st_sorted_files)
  /\ Range(st_sorted_files) = DOMAIN st_files_map

\* no result is left for after scan_finished
ResultsBeforeFinished ==
  /\ st_log.dropped = 0
  /\ \A i \in 1 .. Len(st_after) :
       st_after[i].kind = "scan_finished" => i = Len(st_after)
  /\ ~st_is_scanning => st_after = <<>>

\* C28: every scan that start_scan started runs scan_finished on the main
\* thread, after which is_scanning is False, be the list empty, the scan
\* complete, cancelled or ended by an exception; with the stop event set
\* the scan thread goes on to no further file; and the callbacks of all
\* results have run when scan_finished runs
C28_ScanTermination ==
  /\ \A n \in 1 .. MaxScans :
       (st_log.started = n) ~> (st_log.finished = n /\ ~st_is_scanning)
  /\ [][st_stop_event /\ st_thread.pc = "next" => st_thread'.pc # "analyse"]_vars
  /\ []ResultsBeforeFinished

\* a cancelled scan that analysed a file and whose scan_finished has run
C28_Witness ==
  /\ st_log.finished = st_log.started
  /\ st_log.ended = "cancelled"
  /\ st_stop_event
  /\ ~st_is_scanning
  /\ Len(st_log.analysed) = 1
  /\ Len(st_sorted_files) > 1

\* ---------------------------------------------------------------------
\* sharpness_gui: image_cache and full_res_cache, filled by run_preloader,
\* run_full_res_preloader, load_images_background and
\* FullscreenViewer.load_worker. A cache is the sequence of its keys in
\* insertion order, which is the order in which a dict iterates. The
\* candidates are the files 1 .. MaxPaths of the folder.

\* line 1233 and line 1441
ImageCacheLimit == 30

\* line 1243
FullResCacheLimit == 5

Thread(kind, n) == [kind |-> kind, n |-> n]

Preloader == Thread("run_preloader", 0)

FullResPreloader == Thread("run_full_res_preloader", 0)

Viewer == Thread("load_worker", 0)

Background == {Thread("load_images_background", n) : n \in 1 .. MaxBackground}

CacheThreads == {Preloader, FullResPreloader, Viewer} \cup Background

\* no thread holds the lock
Free == Thread("", 0)

\* the cache a thread fills, which also names its lock and its queue
CacheOf(t) ==
  IF t.kind \in {"run_preloader", "load_images_background"}
  THEN "image" ELSE "full_res"

\* load_worker inserts at lines 100-101 and does not prune
Prunes(t) == t.kind # "load_worker"

Limit(cache) == IF cache = "image" THEN ImageCacheLimit ELSE FullResCacheLimit

\* len(cache) > limit + 1
OverflowsByTwo(keys, limit) == Len(keys) > limit + 1

\* len(cache) > limit
Overflows(keys, limit) == Len(keys) > limit

Keys(cache) == IF cache = "image" THEN ca_image_cache ELSE ca_full_res_cache

\* utils.load_image_preview(path, max_size) gives an image or None, and
\* has no parameter full_res (utils.py:206): the call with full_res=True
\* raises TypeError
load_image_preview(full_res, readable) ==
  IF full_res THEN "TypeError" ELSE IF readable THEN "image" ELSE "None"

\* a thread that is not running, or waits for its queue
Waiting(t) ==
  [pc |-> IF t \in {Preloader, FullResPreloader} THEN "get" ELSE "idle",
   path |-> 0, todo |-> <<>>, first |-> 0]

\* the thread goes on: to the next path of get_image, or back to its queue
GoOn(t, rec) ==
  IF rec.todo = <<>> THEN Waiting(t)
  ELSE [pc |-> "check", path |-> Head(rec.todo), todo |-> Tail(rec.todo),
        first |-> 0]

\* the previews of the first Warm files are cached, as after stepping
\* through them one by one
CacheInit ==
  /\ AggIdle
  /\ RestIdle
  /\ ExifIdle
  /\ SweepIdle
  /\ FinderIdle
  /\ ScanIdle
  /\ ca_image_cache = [i \in 1 .. Warm |-> i]
  /\ ca_full_res_cache = <<>>
  /\ ca_lock = [image |-> Free, full_res |-> Free]
  /\ ca_queue = [image |-> <<>>, full_res |-> <<>>]
  /\ ca_threads = [t \in CacheThreads |-> Waiting(t)]

\* the candidates that the user looks at: the last ones of the list
Window == (MaxPaths - 1) .. MaxPaths

\* the candidate that is on show when the user opens the fullscreen viewer
Shown == {MaxPaths}

\* the other components
cacheOthers == <<aggVars, earlier, restVars, exifVars, sweepVars, finderVars,
                 scanVars>>

\* prev_path, current_path, next_path of lines 1301-1308, None left out
Triplet(p) ==
  (IF p > 1 THEN <<p - 1>> ELSE <<>>) \o <<p>>
  \o (IF p < MaxPaths THEN <<p + 1>> ELSE <<>>)

\* lines 1186-1202: what queue_candidate puts for candidate c
QueueCandidate(c) ==
  <<c>> \o (IF c < MaxPaths THEN <<c + 1>> ELSE <<>>)
  \o (IF c > 1 THEN <<c - 1>> ELSE <<>>)

\* lines 1178-1184: the next three candidates
RECURSIVE Lookahead(_, _)
Lookahead(c, count) ==
  IF count >= 3 \/ c > MaxPaths THEN <<>>
  ELSE QueueCandidate(c) \o Lookahead(c + 1, count + 1)

\* lines 1140-1184 and 1296-1345: the user selects candidate p; the
\* queues are cleared and refilled and a load_images_background thread
\* starts
CacheOnCandidateSelect(p) ==
  /\ \E t \in Background :
       /\ ca_threads[t].pc = "idle"
       /\ \A u \in Background : u.n < t.n => ca_threads[u].pc # "idle"
       /\ ca_threads' = [ca_threads EXCEPT
                           ![t] = GoOn(t, [todo |-> Triplet(p)])]
  /\ ca_queue' = [image |-> Lookahead(p + 1, 0), full_res |-> QueueCandidate(p)]
  /\ UNCHANGED <<ca_image_cache, ca_full_res_cache, ca_lock>>
  /\ UNCHANGED cacheOthers

\* lines 869-873 and 80-91: the fullscreen viewer opens on a path that is
\* not in full_res_cache and starts load_worker
OpenFullscreen(p) ==
  /\ ca_threads[Viewer].pc = "idle"
  /\ ca_lock.full_res = Free
  /\ p \notin Range(ca_full_res_cache)
  /\ ca_threads' = [ca_threads EXCEPT
                      ![Viewer] = [pc |-> "load", path |-> p, todo |-> <<>>,
                                   first |-> 0]]
  /\ UNCHANGED <<ca_image_cache, ca_full_res_cache, ca_lock, ca_queue>>
  /\ UNCHANGED cacheOthers

\* lines 972-974: start_scan resets the cache, without the lock
ResetCache ==
  /\ ca_image_cache # <<>> \/ ca_queue.image # <<>>
  /\ ca_image_cache' = <<>>
  /\ ca_queue' = [ca_queue EXCEPT !.image = <<>>]
  /\ UNCHANGED <<ca_full_res_cache, ca_lock, ca_threads>>
  /\ UNCHANGED cacheOthers

\* the cache of the thread gets new keys
SetKeys(t, keys) ==
  IF CacheOf(t) = "image"
  THEN ca_image_cache' = keys /\ UNCHANGED ca_full_res_cache
  ELSE ca_full_res_cache' = keys /\ UNCHANGED ca_image_cache

\* lines 1219-1221 and 1247-1249: queue.get()
QueueGet(t) ==
  /\ t \in {Preloader, FullResPreloader}
  /\ ca_threads[t].pc = "get"
  /\ ca_queue[CacheOf(t)] # <<>>
  /\ ca_queue' = [ca_queue EXCEPT ![CacheOf(t)] = Tail(@)]
  /\ ca_threads' = [ca_threads EXCEPT
                      ![t] = [@ EXCEPT !.pc = "check",
                                       !.path = Head(ca_queue[CacheOf(t)])]]
  /\ UNCHANGED <<ca_image_cache, ca_full_res_cache, ca_lock>>
  /\ UNCHANGED cacheOthers

\* what the thread does with the image loaded, None or the exception
Loaded(t, rec, readable) ==
  IF load_image_preview(CacheOf(t) = "full_res", readable) = "image"
  THEN [rec EXCEPT !.pc = "insert"]
  ELSE GoOn(t, rec)

\* lines 1223-1229, 1251-1258 and 1430-1438: "with lock: if path in
\* cache", then the image is loaded outside the lock; a path that is in
\* the cache, None and an exception end the work on the path
CheckAndLoad(t, readable) ==
  /\ ca_threads[t].pc = "check"
  /\ ca_lock[CacheOf(t)] = Free
  /\ ca_threads' = [ca_threads EXCEPT
                      ![t] = IF ca_threads[t].path \in Range(Keys(CacheOf(t)))
                             THEN GoOn(t, @)
                             ELSE Loaded(t, @, readable)]
  /\ UNCHANGED <<ca_image_cache, ca_full_res_cache, ca_lock, ca_queue>>
  /\ UNCHANGED cacheOthers

\* lines 93-108: load_worker loads without looking into the cache
LoadWorker(readable) ==
  /\ ca_threads[Viewer].pc = "load"
  /\ ca_threads' = [ca_threads EXCEPT ![Viewer] = Loaded(Viewer, @, readable)]
  /\ UNCHANGED <<ca_image_cache, ca_full_res_cache, ca_lock, ca_queue>>
  /\ UNCHANGED cacheOthers

\* lines 1230-1231, 1259-1260, 1439-1440 and 100-101: "with lock:
\* cache[path] = img"; a key that is there keeps its place
InsertImage(t) ==
  /\ ca_threads[t].pc = "insert"
  /\ ca_lock[CacheOf(t)] = Free
  /\ SetKeys(t, IF ca_threads[t].path \in Range(Keys(CacheOf(t)))
                THEN Keys(CacheOf(t))
                ELSE Append(Keys(CacheOf(t)), ca_threads[t].path))
  /\ IF Prunes(t)
     THEN /\ ca_lock' = [ca_lock EXCEPT ![CacheOf(t)] = t]
          /\ ca_threads' = [ca_threads EXCEPT ![t] = [@ EXCEPT !.pc = "prune"]]
     ELSE /\ ca_threads' = [ca_threads EXCEPT ![t] = GoOn(t, @)]
          /\ UNCHANGED ca_lock
  /\ UNCHANGED ca_queue
  /\ UNCHANGED cacheOthers

\* lines 1233, 1262 and 1441: "if len(cache) > limit", the lock held
PruneCheck(t) ==
  /\ ca_threads[t].pc = "prune"
  /\ IF Overflows(Keys(CacheOf(t)), Limit(CacheOf(t)))
     THEN /\ ca_threads' = [ca_threads EXCEPT ![t] = [@ EXCEPT !.pc = "first"]]
          /\ UNCHANGED ca_lock
     ELSE /\ ca_threads' = [ca_threads EXCEPT ![t] = GoOn(t, @)]
          /\ ca_lock' = [ca_lock EXCEPT ![CacheOf(t)] = Free]
  /\ UNCHANGED <<ca_image_cache, ca_full_res_cache, ca_queue>>
  /\ UNCHANGED cacheOthers

\* lines 1234, 1263 and 1442: "first = next(iter(cache))"; StopIteration
\* for a cache emptied meanwhile goes to "except Exception"
TakeFirst(t) ==
  /\ ca_threads[t].pc = "first"
  /\ IF Keys(CacheOf(t)) = <<>>
     THEN /\ ca_threads' = [ca_threads EXCEPT ![t] = GoOn(t, @)]
          /\ ca_lock' = [ca_lock EXCEPT ![CacheOf(t)] = Free]
     ELSE /\ ca_threads' = [ca_threads EXCEPT
                              ![t] = [@ EXCEPT !.pc = "del",
                                               !.first = Head(Keys(CacheOf(t)))]]
          /\ UNCHANGED ca_lock
  /\ UNCHANGED <<ca_image_cache, ca_full_res_cache, ca_queue>>
  /\ UNCHANGED cacheOthers

\* lines 1235, 1264 and 1443: "del cache[first]", KeyError for a key that
\* left meanwhile going to "except Exception"; the lock is released
DeleteFirst(t) ==
  /\ ca_threads[t].pc = "del"
  /\ SetKeys(t, Remove(Keys(CacheOf(t)), ca_threads[t].first))
  /\ ca_threads' = [ca_threads EXCEPT ![t] = GoOn(t, @)]
  /\ ca_lock' = [ca_lock EXCEPT ![CacheOf(t)] = Free]
  /\ UNCHANGED ca_queue
  /\ UNCHANGED cacheOthers

NextCache ==
  \/ \E p \in Window : CacheOnCandidateSelect(p)
  \/ \E p \in Shown : OpenFullscreen(p)
  \/ ResetCache
  \/ \E t \in CacheThreads : QueueGet(t)
  \/ \E t \in CacheThreads, readable \in BOOLEAN : CheckAndLoad(t, readable)
  \/ \E readable \in BOOLEAN : LoadWorker(readable)
  \/ \E t \in CacheThreads : InsertImage(t)
  \/ \E t \in CacheThreads : PruneCheck(t)
  \/ \E t \in CacheThreads : TakeFirst(t)
  \/ \E t \in CacheThreads : DeleteFirst(t)

SpecCache == CacheInit /\ [][NextCache]_vars

\* what one step may take out of a cache: everything (start_scan clears
\* image_cache) or, on overflow, the entry that was inserted first
ShrinksBy(before, after, limit) ==
  Len(after) < Len(before) =>
    \/ after = <<>>
    \/ Len(before) > limit /\ after = Tail(before)

====
